---- MODULE Spec2Model ----
(***************************************************************************)
(* MultiPayBackend: the idempotency engine (IdempotencyService.execute     *)
(* over idempotencyRepository), the payment lifecycle service that wraps   *)
(* provider calls in it, and webhook processing.                           *)
(*                                                                         *)
(* Every `await` of the code is one step of a request: requests of         *)
(* different HTTP calls interleave between awaits, never inside one.       *)
(* Time is Date.now() in whole seconds.                                    *)
(***************************************************************************)
EXTENDS Integers, Sequences, FiniteSets, TLC

(* ---------------------------------------------------------------- bounds *)
NumRequests == 2
MaxTime == 2
MaxWebhooks == 1
(* env.IDEMPOTENCY_LOCK_TIMEOUT_SECONDS, scaled down to the model's clock. *)
IDEMPOTENCY_LOCK_TIMEOUT_SECONDS == 1

Requests == 1..NumRequests
Keys == {"k1"}
(* Every Idempotency-Key value a client of the model sends. *)
StoreKeys == {"k1", "k2"}
ProviderIds == {"pp_1", "pp_2"}
Providers == {"stripe", "paypal", "razorpay"}

(* A nullable value: Null, or <<v>>. *)
Null == <<>>
Some(v) == <<v>>

(* Request bodies as the ordered key/value pairs of the parsed JSON object. *)
(* A currency code is the sequence of its characters.                       *)
BodyStripe ==
  << <<"provider", "stripe">>, <<"amount", "100">>,
     <<"currency", <<"u", "s", "d">> >> >>
BodyRazorpay ==
  << <<"provider", "razorpay">>, <<"amount", "200">>,
     <<"currency", <<"I", "n", "r">> >> >>
Bodies == {BodyStripe, BodyRazorpay}

Field(body, name) ==
  LET i == CHOOSE j \in 1..Len(body) : body[j][1] = name IN body[i][2]

(* ------------------------------------------------------------- variables *)
VARIABLES
  env,       \* which credentials and webhook secrets the process was started with
  now,       \* Date.now(), in seconds
  idem,      \* the IdempotencyKey table: key -> Null or <<row>>
  payments,  \* the Payment table, in insertion order
  req,       \* each in-flight or finished HTTP request
  webhookEvents, \* the WebhookEvent table, in insertion order
  hook       \* the webhook delivery being processed, or the last one processed

vars == <<env, now, idem, payments, req, webhookEvents, hook>>

(* ------------------------------------------------------ pure functions *)
(* A payload that is null or undefined (no body at all), as opposed to the  *)
(* object without keys.                                                    *)
MissingBody == <<Null>>
EmptyObject == <<>>

(* JSON.stringify keeps the key order of the object it is given; sha256 is *)
(* taken as injective on the serialized text.                              *)
JSONstringifyRequest(body) == <<"json", body>>

(* hashPayload: sha256 of JSON.stringify(payload ?? {}). *)
hashPayload(payload) ==
  <<"sha256",
    JSONstringifyRequest(IF payload = MissingBody THEN EmptyObject ELSE payload)>>

(* JSON.stringify / JSON.parse of a handler result body. *)
JSONstringify(body) == <<"json", body[2], body[3], body[4]>>
JSONparse(text) == <<"obj", text[2], text[3], text[4]>>

(* Variant of the replay test that never finds a stored response. *)
IgnoresStoredResponse(row) == FALSE

(* existing.responseBody && existing.responseCode *)
HasResponse(row) ==
  /\ row.responseBody # Null
  /\ row.responseCode # Null
  /\ row.responseCode[1] # 0

(* Variants of the lock-age test: the comparison inverted, the boundary     *)
(* counted as fresh, and a lock that never ages.                            *)
LockAgeAboveTimeout(row, t) ==
  /\ row.lockedAt # Null
  /\ (t - row.lockedAt[1]) * 1000 > IDEMPOTENCY_LOCK_TIMEOUT_SECONDS * 1000

LockAgeAtMostTimeout(row, t) ==
  /\ row.lockedAt # Null
  /\ (t - row.lockedAt[1]) * 1000 <= IDEMPOTENCY_LOCK_TIMEOUT_SECONDS * 1000

LockNeverExpires(row, t) == row.lockedAt # Null

(* lockAgeMs < env.IDEMPOTENCY_LOCK_TIMEOUT_SECONDS * 1000, where a null    *)
(* lockedAt gives Number.POSITIVE_INFINITY.                                 *)
LockAgeBelowTimeout(row, t) ==
  /\ row.lockedAt # Null
  /\ (t - row.lockedAt[1]) * 1000 < IDEMPOTENCY_LOCK_TIMEOUT_SECONDS * 1000

(* ---------------------------------------------------------------- state *)
NoOutcome == [kind |-> "none", cached |-> FALSE, statusCode |-> 0,
              code |-> "", body |-> Null]
Failure(status, code) == [kind |-> "error", cached |-> FALSE,
                          statusCode |-> status, code |-> code, body |-> Null]
(* An exception that is not an AppError (a Prisma or vendor SDK error). *)
Thrown(name) == [kind |-> "thrown", cached |-> FALSE, statusCode |-> 0,
                 code |-> name, body |-> Null]
Success(cached, status, body) == [kind |-> "ok", cached |-> cached,
                                  statusCode |-> status, code |-> "",
                                  body |-> body]

(* Variant of the error handler that sends the stack in every environment. *)
errorHandlerWithStack(err, nodeEnv) ==
  IF err.kind = "thrown"
    THEN [status |-> 500, code |-> "INTERNAL_SERVER_ERROR",
          message |-> "Internal Server Error", stack |-> TRUE]
    ELSE [status |-> err.statusCode, code |-> err.code, message |-> err.code,
          stack |-> FALSE]

(* errorHandler: an AppError passes with its own status and code (its       *)
(* message is the one its code names); anything else becomes the fixed      *)
(* 500. Only the wrapped error has a cause, so only it can carry a stack.   *)
errorHandler(err, nodeEnv) ==
  IF err.kind = "thrown"
    THEN [status |-> 500, code |-> "INTERNAL_SERVER_ERROR",
          message |-> "Internal Server Error",
          stack |-> nodeEnv # "production"]
    ELSE [status |-> err.statusCode, code |-> err.code, message |-> err.code,
          stack |-> FALSE]

(* op: the route; paymentId, dbPayment: the target of a confirm or refund   *)
(* and the row assertPaymentExists returned for it; ran: the handler was    *)
(* entered; called: the vendor's API was called; vendorRequest: the create  *)
(* request the adapter sent to the vendor, if it sent one.                  *)
IdleRequest == [pc |-> "idle", op |-> "create", key |-> "k1", body |-> BodyStripe,
                requestHash |-> hashPayload(BodyStripe), existing |-> FALSE,
                paymentId |-> 0, dbPayment |-> Null,
                result |-> Null, ran |-> FALSE, called |-> FALSE,
                vendorRequest |-> Null, outcome |-> NoOutcome]

(* env: per provider, whether the API credentials and the webhook secret    *)
(* (PayPal: the webhook id) are set.                                        *)
(* NODE_ENV is "development" unless the deployment sets it.                 *)
Configured(clients, secrets) ==
  [client |-> clients, webhookSecret |-> secrets, nodeEnv |-> "development"]
AllConfigured == Configured(Providers, Providers)
RazorpayMissing == Configured(Providers \ {"razorpay"}, Providers \ {"razorpay"})

(* A webhook delivery: the provider of the route, the names of the headers  *)
(* it carries, the verdict of the signature check on it (the HMAC or SDK    *)
(* comparison; for PayPal the vendor's verification_status) and the event   *)
(* in its body.                                                             *)
NoEvent == [id |-> "", type |-> <<"", "">>, object |-> Null]
Delivery(provider, headers, verification, event) ==
  [provider |-> provider, headers |-> headers, verification |-> verification,
   event |-> event]
IdleHook == [pc |-> "idle", delivery |-> Delivery("stripe", {}, "FAILURE", NoEvent),
             outcome |-> NoOutcome, payload |-> Null, remote |-> FALSE]

InitState ==
  /\ now = 0
  /\ idem = [k \in StoreKeys |-> Null]
  /\ payments = <<>>
  /\ req = [p \in Requests |-> IdleRequest]
  /\ webhookEvents = <<>>
  /\ hook = IdleHook

Init ==
  /\ env \in {AllConfigured, RazorpayMissing}
  /\ InitState

(* -------------------------------------------------------------- actions *)
Tick ==
  /\ now < MaxTime
  /\ now' = now + 1
  /\ UNCHANGED <<env, idem, payments, req, webhookEvents, hook>>

(* POST /payments reaches PaymentService.createPayment, which enters        *)
(* IdempotencyService.execute and computes the request hash.                *)
StartRequest(p, k, b) ==
  /\ req[p].pc = "idle"
  /\ \A q \in Requests : q < p => req[q].pc # "idle"
  /\ req' = [req EXCEPT ![p] = [IdleRequest EXCEPT
                !.pc = "find", !.key = k, !.body = b,
                !.requestHash = hashPayload(b)]]
  /\ UNCHANGED <<env, now, idem, payments, webhookEvents, hook>>

Finish(p, outcome) == [req[p] EXCEPT !.pc = "done", !.outcome = outcome]

(* The endpoint a call of execute names, as its path segments. *)
Endpoint(r) ==
  CASE r.op \in {"create", "unit"} -> <<"/payments">>
    [] r.op = "confirm" -> <<"/payments", r.paymentId, "confirm">>
    [] r.op = "refund" -> <<"/payments", r.paymentId, "refund">>

(* Variant of the decision that treats a record of another endpoint as a    *)
(* conflict.                                                                *)
FindByKeyEndpointScoped(r, found, t) ==
  IF found = Null
    THEN [r EXCEPT !.pc = "create", !.existing = FALSE]
  ELSE IF found[1].requestHash # r.requestHash \/ found[1].endpoint # Endpoint(r)
    THEN [r EXCEPT !.pc = "done", !.existing = TRUE,
            !.outcome = Failure(409, "IDEMPOTENCY_KEY_MISMATCH")]
  ELSE IF HasResponse(found[1])
    THEN [r EXCEPT !.pc = "done", !.existing = TRUE,
            !.outcome = Success(TRUE, found[1].responseCode[1],
                                JSONparse(found[1].responseBody))]
  ELSE IF LockAgeBelowTimeout(found[1], t)
    THEN [r EXCEPT !.pc = "done", !.existing = TRUE,
            !.outcome = Failure(425, "IDEMPOTENCY_KEY_LOCKED")]
  ELSE [r EXCEPT !.pc = "lock", !.existing = TRUE]

(* Variant of the decision that replays a stored response before it        *)
(* compares the request hash.                                               *)
FindByKeyReplayFirst(r, found, t) ==
  IF found = Null
    THEN [r EXCEPT !.pc = "create", !.existing = FALSE]
  ELSE IF HasResponse(found[1])
    THEN [r EXCEPT !.pc = "done", !.existing = TRUE,
            !.outcome = Success(TRUE, found[1].responseCode[1],
                                JSONparse(found[1].responseBody))]
  ELSE IF found[1].requestHash # r.requestHash
    THEN [r EXCEPT !.pc = "done", !.existing = TRUE,
            !.outcome = Failure(409, "IDEMPOTENCY_KEY_MISMATCH")]
  ELSE IF LockAgeBelowTimeout(found[1], t)
    THEN [r EXCEPT !.pc = "done", !.existing = TRUE,
            !.outcome = Failure(425, "IDEMPOTENCY_KEY_LOCKED")]
  ELSE [r EXCEPT !.pc = "lock", !.existing = TRUE]

(* execute, from findByKey to the decision taken on its result. *)
FindByKeyResult(r, found, t) ==
  IF found = Null
    THEN [r EXCEPT !.pc = "create", !.existing = FALSE]
  ELSE IF found[1].requestHash # r.requestHash
    THEN [r EXCEPT !.pc = "done", !.existing = TRUE,
            !.outcome = Failure(409, "IDEMPOTENCY_KEY_MISMATCH")]
  ELSE IF HasResponse(found[1])
    THEN [r EXCEPT !.pc = "done", !.existing = TRUE,
            !.outcome = Success(TRUE, found[1].responseCode[1],
                                JSONparse(found[1].responseBody))]
  ELSE IF LockAgeBelowTimeout(found[1], t)
    THEN [r EXCEPT !.pc = "done", !.existing = TRUE,
            !.outcome = Failure(425, "IDEMPOTENCY_KEY_LOCKED")]
  ELSE [r EXCEPT !.pc = "lock", !.existing = TRUE]

(* Variant of the lookup that refreshes the lock of the record it finds. *)
FindByKeyTouchesLock(p) ==
  /\ req[p].pc = "find"
  /\ req' = [req EXCEPT ![p] = FindByKeyResult(req[p], idem[req[p].key], now)]
  /\ idem' = IF idem[req[p].key] = Null THEN idem
             ELSE [idem EXCEPT ![req[p].key] =
                     Some([idem[req[p].key][1] EXCEPT !.lockedAt = Some(now + 1)])]
  /\ UNCHANGED <<env, now, payments, webhookEvents, hook>>

FindByKey(p) ==
  /\ req[p].pc = "find"
  /\ req' = [req EXCEPT ![p] = FindByKeyResult(req[p], idem[req[p].key], now)]
  /\ UNCHANGED <<env, now, idem, payments, webhookEvents, hook>>

NewRow(r) == [key |-> r.key, endpoint |-> Endpoint(r), method |-> "POST",
              requestHash |-> r.requestHash, lockedAt |-> Null,
              responseCode |-> Null, responseBody |-> Null]

(* Variant of create that replaces the record of a key that exists. *)
CreateOverwrites(p) ==
  /\ req[p].pc = "create"
  /\ idem' = [idem EXCEPT ![req[p].key] = Some(NewRow(req[p]))]
  /\ req' = [req EXCEPT ![p].pc = "lock"]
  /\ UNCHANGED <<env, now, payments, webhookEvents, hook>>

(* idempotencyRepository.create: the key column is unique (findUnique by    *)
(* key), so inserting a key that exists is rejected by the store.           *)
Create(p) ==
  /\ req[p].pc = "create"
  /\ IF idem[req[p].key] # Null
       THEN /\ req' = [req EXCEPT ![p] = Finish(p, Thrown("P2002_KEY"))]
            /\ UNCHANGED idem
       ELSE /\ idem' = [idem EXCEPT ![req[p].key] = Some(NewRow(req[p]))]
            /\ req' = [req EXCEPT ![p].pc = "lock"]
  /\ UNCHANGED <<env, now, payments, webhookEvents, hook>>

(* Variant of the lock write that also rewrites the endpoint column. *)
LockedRowRewritesEndpoint(row, t) ==
  [row EXCEPT !.lockedAt = Some(t), !.endpoint = <<"relocked">>]

(* idempotencyRepository.lock *)
LockedRow(row, t) == [row EXCEPT !.lockedAt = Some(t)]

(* Variant of the lock step that goes on to the handler without the write. *)
LockSkipsWrite(p) ==
  /\ req[p].pc = "lock"
  /\ req' = [req EXCEPT ![p].pc = "handler"]
  /\ UNCHANGED <<env, now, idem, payments, webhookEvents, hook>>

Lock(p) ==
  /\ req[p].pc = "lock"
  /\ idem' = [idem EXCEPT ![req[p].key] = Some(LockedRow(idem[req[p].key][1], now))]
  /\ req' = [req EXCEPT ![p].pc = "handler"]
  /\ UNCHANGED <<env, now, payments, webhookEvents, hook>>

(* ------------------------------------------------------------- adapters *)
(* A status the vendor's object does not carry: as a property key it is the *)
(* string "undefined", in a switch it falls to the default.                *)
Undefined == "undefined"

(* Property names every object literal inherits from Object.prototype.      *)
ObjectPrototypeKeys ==
  {"constructor", "toString", "valueOf", "hasOwnProperty", "isPrototypeOf",
   "propertyIsEnumerable", "toLocaleString", "__proto__"}

(* What a lookup of an inherited name yields: a member of Object.prototype, *)
(* which is not nullish and is no PaymentStatus.                            *)
InheritedMember == "Object.prototype member"

(* stripeStatusMap[status] ?? 'PENDING': the lookup is a property access on *)
(* an object literal, so it also finds inherited names.                     *)
mapStripeStatus(status) ==
  CASE status \in ObjectPrototypeKeys -> InheritedMember
    [] status = "canceled" -> "FAILED"
    [] status = "processing" -> "PENDING"
    [] status = "requires_action" -> "REQUIRES_ACTION"
    [] status = "requires_capture" -> "REQUIRES_ACTION"
    [] status = "requires_confirmation" -> "REQUIRES_ACTION"
    [] status = "requires_payment_method" -> "FAILED"
    [] status = "succeeded" -> "SUCCEEDED"
    [] OTHER -> "PENDING"

mapRazorpayStatus(status) ==
  CASE status \in {"created", "authorized"} -> "PENDING"
    [] status = "captured" -> "SUCCEEDED"
    [] status = "failed" -> "FAILED"
    [] status = "refunded" -> "REFUNDED"
    [] OTHER -> "PENDING"

mapPayPalStatus(status) ==
  CASE status \in {"COMPLETED", "CAPTURED"} -> "SUCCEEDED"
    [] status \in {"PENDING", "APPROVED", "CREATED"} -> "PENDING"
    [] status = "REFUNDED" -> "REFUNDED"
    [] status \in {"VOIDED", "DECLINED"} -> "FAILED"
    [] OTHER -> "PENDING"

mapStatus(provider, status) ==
  CASE provider = "stripe" -> mapStripeStatus(status)
    [] provider = "razorpay" -> mapRazorpayStatus(status)
    [] provider = "paypal" -> mapPayPalStatus(status)

(* The status the vendor reports for a payment it has just created. *)
CreateStatuses(provider) ==
  CASE provider = "stripe" -> {"requires_confirmation"}
    [] provider = "razorpay" -> {"created"}
    [] provider = "paypal" -> {"CREATED"}

(* ensureClient of each adapter: the typed error when credentials are absent. *)
NotConfiguredCode(provider) ==
  CASE provider = "stripe" -> "STRIPE_NOT_CONFIGURED"
    [] provider = "razorpay" -> "RAZORPAY_NOT_CONFIGURED"
    [] provider = "paypal" -> "PAYPAL_NOT_CONFIGURED"

(* Variant that refuses every provider when any provider lacks credentials. *)
ensureAllClients(provider) ==
  IF Providers \subseteq env.client THEN Null
  ELSE Some(Failure(500, NotConfiguredCode(provider)))

ensureClient(provider) ==
  IF provider \in env.client THEN Null
  ELSE Some(Failure(500, NotConfiguredCode(provider)))

(* The input createPayment's handler gives the adapter: idempotencyKey is   *)
(* options.idempotencyKey, the key execute was called with.                 *)
CreateAdapterInput(r) ==
  [amount |-> Field(r.body, "amount"), currency |-> Field(r.body, "currency"),
   idempotencyKey |-> r.key]

(* Variant of the adapters in which the Razorpay order carries no receipt. *)
VendorCreateRequestNoReceipt(provider, input) ==
  CASE provider = "stripe" ->
         [call |-> "paymentIntents.create",
          requestOption |-> Some(input.idempotencyKey),
          payPalRequestId |-> Null, receipt |-> Null]
    [] provider = "razorpay" ->
         [call |-> "orders.create", requestOption |-> Null,
          payPalRequestId |-> Null, receipt |-> Null]
    [] provider = "paypal" ->
         [call |-> "OrdersCreateRequest", requestOption |-> Null,
          payPalRequestId |-> Some(input.idempotencyKey), receipt |-> Null]

(* The vendor call each adapter's createPayment makes, by where the         *)
(* idempotency key goes: Stripe's request option idempotencyKey, Razorpay's *)
(* receipt field, PayPal's PayPal-Request-Id header.                        *)
VendorCreateRequest(provider, input) ==
  CASE provider = "stripe" ->
         [call |-> "paymentIntents.create",
          requestOption |-> Some(input.idempotencyKey),
          payPalRequestId |-> Null, receipt |-> Null]
    [] provider = "razorpay" ->
         [call |-> "orders.create", requestOption |-> Null,
          payPalRequestId |-> Null, receipt |-> Some(input.idempotencyKey)]
    [] provider = "paypal" ->
         [call |-> "OrdersCreateRequest", requestOption |-> Null,
          payPalRequestId |-> Some(input.idempotencyKey), receipt |-> Null]

(* ------------------------------------------- the createPayment unit of work *)
(* provider_providerPaymentId is a unique index of the Payment table        *)
(* (findByProviderPaymentId looks rows up through it).                      *)
PaymentExists(provider, ppid) ==
  \E i \in 1..Len(payments) :
    payments[i].provider = provider /\ payments[i].providerPaymentId = ppid

(* String.prototype.toUpperCase, character by character: a lower-case      *)
(* letter becomes its capital, every other character stays.                 *)
LowerCaseLetters == {"u", "s", "d", "i", "n", "r"}
UpperCaseLetter(c) ==
  CASE c = "u" -> "U" [] c = "s" -> "S" [] c = "d" -> "D"
    [] c = "i" -> "I" [] c = "n" -> "N" [] c = "r" -> "R"
    [] OTHER -> c
toUpperCase(text) == [i \in 1..Len(text) |-> UpperCaseLetter(text[i])]

(* Variant of the insert that stores the currency as the client sent it. *)
NewPaymentKeepsCase(r, ppid, status) ==
  [id |-> Len(payments) + 1, provider |-> Field(r.body, "provider"),
   providerPaymentId |-> ppid, status |-> status,
   amount |-> Field(r.body, "amount"),
   currency |-> Field(r.body, "currency"), idempotencyKeyId |-> r.key]

(* paymentRepository.create *)
NewPayment(r, ppid, status) ==
  [id |-> Len(payments) + 1, provider |-> Field(r.body, "provider"),
   providerPaymentId |-> ppid, status |-> status,
   amount |-> Field(r.body, "amount"),
   currency |-> toUpperCase(Field(r.body, "currency")),
   idempotencyKeyId |-> r.key]

(* The handler's result body: { payment: toPaymentDTO(payment),             *)
(* providerResponse: adapterResponse.raw }, by the fields that identify it. *)
HandlerBody(row) ==
  <<"obj", row.id, row.providerPaymentId, row.status>>

(* Variant of the failing handler whose error is stored as the response. *)
HandlerFailsStoresError(p) ==
  /\ req[p].pc = "handler"
  /\ req[p].op = "create"
  /\ LET missing == ensureClient(Field(req[p].body, "provider")) IN
     req' = [req EXCEPT ![p] =
               [Finish(p, IF missing # Null THEN missing[1]
                          ELSE Thrown("PROVIDER_ERROR"))
                  EXCEPT !.ran = TRUE, !.called = (missing = Null),
                         !.vendorRequest =
                           IF missing # Null THEN Null
                           ELSE Some(VendorCreateRequest(
                                       Field(req[p].body, "provider"),
                                       CreateAdapterInput(req[p])))]]
  /\ idem' = [idem EXCEPT ![req[p].key] =
                Some([idem[req[p].key][1] EXCEPT
                        !.responseCode = Some(500),
                        !.responseBody = <<"json", 0, "", "FAILED">>])]
  /\ UNCHANGED <<env, now, payments, webhookEvents, hook>>

(* The handler throws: the adapter is not configured, or the vendor call    *)
(* fails. No Payment row is written and execute stores no response.         *)
HandlerFails(p) ==
  /\ req[p].pc = "handler"
  /\ req[p].op = "create"
  /\ LET missing == ensureClient(Field(req[p].body, "provider")) IN
     req' = [req EXCEPT ![p] =
               [Finish(p, IF missing # Null THEN missing[1]
                          ELSE Thrown("PROVIDER_ERROR"))
                  EXCEPT !.ran = TRUE, !.called = (missing = Null),
                         !.vendorRequest =
                           IF missing # Null THEN Null
                           ELSE Some(VendorCreateRequest(
                                       Field(req[p].body, "provider"),
                                       CreateAdapterInput(req[p])))]]
  /\ UNCHANGED <<env, now, idem, payments, webhookEvents, hook>>

(* The vendor call returns (ppid, vendor status); then the row is inserted. *)
HandlerSucceeds(p, ppid, vendorStatus) ==
  /\ req[p].pc = "handler"
  /\ req[p].op = "create"
  /\ ensureClient(Field(req[p].body, "provider")) = Null
  /\ vendorStatus \in CreateStatuses(Field(req[p].body, "provider"))
  /\ LET sent == Some(VendorCreateRequest(Field(req[p].body, "provider"),
                                          CreateAdapterInput(req[p])))
     IN
     IF PaymentExists(Field(req[p].body, "provider"), ppid)
       THEN /\ req' = [req EXCEPT ![p] = [Finish(p, Thrown("P2002_PAYMENT"))
                                            EXCEPT !.ran = TRUE, !.called = TRUE,
                                                   !.vendorRequest = sent]]
            /\ UNCHANGED payments
       ELSE LET row == NewPayment(req[p], ppid,
                         mapStatus(Field(req[p].body, "provider"), vendorStatus)) IN
            /\ payments' = Append(payments, row)
            /\ req' = [req EXCEPT ![p].pc = "store", ![p].ran = TRUE,
                         ![p].called = TRUE, ![p].vendorRequest = sent,
                         ![p].result = Some([statusCode |-> 201,
                                             body |-> HandlerBody(row)])]
  /\ UNCHANGED <<env, now, idem, webhookEvents, hook>>

(* Variant of storeResponse that keeps a response that is already stored. *)
StoredRowKeepsFirst(row, response) ==
  IF row.responseCode # Null THEN row
  ELSE [row EXCEPT !.responseCode = Some(response.statusCode),
                   !.responseBody = <<"json", response.body[2], response.body[3],
                                      response.body[4]>>]

(* idempotencyRepository.storeResponse *)
StoredRow(row, response) ==
  [row EXCEPT !.responseCode = Some(response.statusCode),
              !.responseBody = IF response.body # Null
                                 THEN JSONstringify(response.body)
                                 ELSE Null]

StoreResponse(p) ==
  /\ req[p].pc = "store"
  /\ idem' = [idem EXCEPT ![req[p].key] =
                Some(StoredRow(idem[req[p].key][1], req[p].result[1]))]
  /\ req' = [req EXCEPT ![p] = Finish(p, Success(FALSE,
                 req[p].result[1].statusCode, req[p].result[1].body))]
  /\ UNCHANGED <<env, now, payments, webhookEvents, hook>>

(* ------------------------------------------------------------- webhooks *)
PayPalRequiredHeaders ==
  {"paypal-transmission-id", "paypal-transmission-time", "paypal-cert-url",
   "paypal-auth-algo", "paypal-transmission-sig"}

(* remote: whether the adapter has called the vendor's verification        *)
(* endpoint before it returned or threw.                                    *)
Rejected(failure) ==
  [kind |-> "rejected", failure |-> failure, payload |-> Null, remote |-> FALSE]
Constructed(payload) ==
  [kind |-> "event", failure |-> NoOutcome, payload |-> payload, remote |-> FALSE]
AfterRemoteCall(verdict) == [verdict EXCEPT !.remote = TRUE]
PaymentUpdate(provider, ppid, status) ==
  [provider |-> provider, providerPaymentId |-> ppid, status |-> status]

(* StripeAdapter.constructWebhookEvent *)
StripeConstructWebhookEvent(d) ==
  IF "stripe-signature" \notin d.headers
    THEN Rejected(Failure(400, "STRIPE_SIGNATURE_MISSING"))
  ELSE IF "stripe" \notin env.webhookSecret
    THEN Rejected(Failure(500, "STRIPE_WEBHOOK_SECRET_MISSING"))
  ELSE IF ensureClient("stripe") # Null
    THEN Rejected(ensureClient("stripe")[1])
  ELSE IF d.verification # "SUCCESS"
    THEN Rejected(Thrown("StripeSignatureVerificationError"))
  ELSE IF d.event.type[1] = "payment_intent" /\ d.event.object # Null
    THEN Constructed(Some(PaymentUpdate("stripe", d.event.object[1].id[1],
                            mapStripeStatus(d.event.object[1].status))))
  ELSE Constructed(Null)

(* Variant of the Razorpay adapter that does not compare the HMAC digest. *)
RazorpaySkipsVerification(d) ==
  IF "razorpay" \notin env.webhookSecret
    THEN Rejected(Failure(500, "RAZORPAY_WEBHOOK_SECRET_MISSING"))
  ELSE IF "x-razorpay-signature" \notin d.headers
    THEN Rejected(Failure(400, "RAZORPAY_SIGNATURE_MISSING"))
  ELSE IF d.event.object # Null
    THEN Constructed(Some(PaymentUpdate("razorpay",
                            IF d.event.object[1].id # Null
                              THEN d.event.object[1].id[1] ELSE "unknown",
                            mapRazorpayStatus(d.event.object[1].status))))
  ELSE Constructed(Null)

(* RazorpayAdapter.constructWebhookEvent *)
RazorpayConstructWebhookEvent(d) ==
  IF "razorpay" \notin env.webhookSecret
    THEN Rejected(Failure(500, "RAZORPAY_WEBHOOK_SECRET_MISSING"))
  ELSE IF "x-razorpay-signature" \notin d.headers
    THEN Rejected(Failure(400, "RAZORPAY_SIGNATURE_MISSING"))
  ELSE IF d.verification # "SUCCESS"
    THEN Rejected(Failure(400, "RAZORPAY_WEBHOOK_VERIFICATION_FAILED"))
  ELSE IF d.event.object # Null
    THEN Constructed(Some(PaymentUpdate("razorpay",
                            IF d.event.object[1].id # Null
                              THEN d.event.object[1].id[1] ELSE "unknown",
                            mapRazorpayStatus(d.event.object[1].status))))
  ELSE Constructed(Null)

(* Variant of the PayPal adapter that requires the signature header only. *)
PayPalChecksSignatureHeaderOnly(d) ==
  IF "paypal" \notin env.webhookSecret
    THEN Rejected(Failure(500, "PAYPAL_WEBHOOK_ID_MISSING"))
  ELSE IF "paypal-transmission-sig" \notin d.headers
    THEN Rejected(Failure(400, "PAYPAL_WEBHOOK_HEADERS_MISSING"))
  ELSE IF ensureClient("paypal") # Null
    THEN Rejected(ensureClient("paypal")[1])
  ELSE IF d.verification # "SUCCESS"
    THEN AfterRemoteCall(Rejected(Failure(400, "PAYPAL_WEBHOOK_VERIFICATION_FAILED")))
  ELSE IF d.event.object # Null /\ d.event.object[1].id # Null
    THEN AfterRemoteCall(
           Constructed(Some(PaymentUpdate("paypal", d.event.object[1].id[1],
                              mapPayPalStatus(d.event.object[1].status)))))
  ELSE AfterRemoteCall(Constructed(Null))

(* PayPalAdapter.constructWebhookEvent *)
PayPalConstructWebhookEvent(d) ==
  IF "paypal" \notin env.webhookSecret
    THEN Rejected(Failure(500, "PAYPAL_WEBHOOK_ID_MISSING"))
  ELSE IF \E h \in PayPalRequiredHeaders : h \notin d.headers
    THEN Rejected(Failure(400, "PAYPAL_WEBHOOK_HEADERS_MISSING"))
  ELSE IF ensureClient("paypal") # Null
    THEN Rejected(ensureClient("paypal")[1])
  ELSE IF d.verification # "SUCCESS"
    THEN AfterRemoteCall(Rejected(Failure(400, "PAYPAL_WEBHOOK_VERIFICATION_FAILED")))
  ELSE IF d.event.object # Null /\ d.event.object[1].id # Null
    THEN AfterRemoteCall(
           Constructed(Some(PaymentUpdate("paypal", d.event.object[1].id[1],
                              mapPayPalStatus(d.event.object[1].status)))))
  ELSE AfterRemoteCall(Constructed(Null))

constructWebhookEvent(d) ==
  CASE d.provider = "stripe" -> StripeConstructWebhookEvent(d)
    [] d.provider = "razorpay" -> RazorpayConstructWebhookEvent(d)
    [] d.provider = "paypal" -> PayPalConstructWebhookEvent(d)

(* The deliveries the model sends. *)
Event(id, type, object) == [id |-> id, type |-> type, object |-> object]
Object(id, status) == Some([id |-> id, status |-> status])

Events(provider) ==
  CASE provider = "stripe" ->
         {Event("evt_1", <<"payment_intent", "succeeded">>,
                Object(Some("pp_1"), "succeeded")),
          Event("evt_2", <<"account", "updated">>, Null),
          Event("evt_4", <<"payment_intent", "created">>,
                Object(Some("pp_1"), Undefined)),
          Event("evt_5", <<"payment_intent", "constructor">>,
                Object(Some("pp_1"), "constructor"))}
    [] provider = "razorpay" ->
         {Event("evt_1", <<"payment", "captured">>,
                Object(Some("pp_1"), "captured")),
          Event("evt_2", <<"payment", "odd">>, Object(Null, "odd")),
          Event("evt_4", <<"payment", "pending">>,
                Object(Some("pp_1"), Undefined))}
    [] provider = "paypal" ->
         {Event("evt_1", <<"PAYMENT", "CAPTURE.COMPLETED">>,
                Object(Some("pp_1"), "COMPLETED")),
          Event("evt_2", <<"BILLING", "PLAN.CREATED">>, Null),
          Event("evt_4", <<"PAYMENT", "CAPTURE.PENDING">>,
                Object(Some("pp_9"), Undefined))}

HeaderSets(provider) ==
  CASE provider = "stripe" -> {{}, {"stripe-signature"}}
    [] provider = "razorpay" -> {{}, {"x-razorpay-signature"}}
    [] provider = "paypal" ->
         {PayPalRequiredHeaders} \cup
         {PayPalRequiredHeaders \ {h} : h \in PayPalRequiredHeaders}

Deliveries ==
  UNION {{Delivery(p, h, v, e) : h \in HeaderSets(p),
                                 v \in {"SUCCESS", "FAILURE"},
                                 e \in Events(p)} : p \in Providers}

(* processWebhook up to the adapter's verdict: a rejection is thrown to the *)
(* caller, an event goes on to be logged.                                   *)
ReceiveWebhook(d) ==
  /\ hook.pc \in {"idle", "rejected", "done"}
  /\ Len(webhookEvents) < MaxWebhooks
  /\ LET verdict == constructWebhookEvent(d) IN
     hook' = IF verdict.kind = "rejected"
               THEN [pc |-> "rejected",
                     delivery |-> [d EXCEPT !.event = NoEvent],
                     outcome |-> verdict.failure, payload |-> Null,
                     remote |-> verdict.remote]
               ELSE [pc |-> "log", delivery |-> d, outcome |-> NoOutcome,
                     payload |-> verdict.payload, remote |-> verdict.remote]
  /\ UNCHANGED <<env, now, idem, payments, req, webhookEvents>>

(* prisma.webhookEvent.create *)
WebhookRow(d) ==
  [provider |-> d.provider, eventId |-> d.event.id, eventType |-> d.event.type,
   signature |-> IF d.headers \cap {"stripe-signature", "x-razorpay-signature"} # {}
                   THEN Some("sig") ELSE Null]

(* Variant of the log step that records only events carrying a payment     *)
(* update.                                                                  *)
AppendWebhookEventForUpdatesOnly ==
  /\ hook.pc = "log"
  /\ webhookEvents' = IF hook.payload # Null
                        THEN Append(webhookEvents, WebhookRow(hook.delivery))
                        ELSE webhookEvents
  /\ hook' = IF hook.payload # Null
               THEN [hook EXCEPT !.pc = "update"]
               ELSE [hook EXCEPT !.pc = "done", !.outcome = Success(FALSE, 202, Null)]
  /\ UNCHANGED <<env, now, idem, payments, req>>

AppendWebhookEvent ==
  /\ hook.pc = "log"
  /\ webhookEvents' = Append(webhookEvents, WebhookRow(hook.delivery))
  /\ hook' = IF hook.payload # Null
               THEN [hook EXCEPT !.pc = "update"]
               ELSE [hook EXCEPT !.pc = "done", !.outcome = Success(FALSE, 202, Null)]
  /\ UNCHANGED <<env, now, idem, payments, req>>

(* The keys of the repository's statusMap. *)
PaymentStatuses == {"PENDING", "REQUIRES_ACTION", "SUCCEEDED", "FAILED", "REFUNDED"}

(* paymentRepository.updateStatus: data.status is statusMap[updates.status], *)
(* undefined for a value that is no key of the map; data.providerPaymentId  *)
(* is updates.providerPaymentId, Null when the caller passes none; and an   *)
(* undefined field of an update is left as it is.                           *)
updateStatus(rows, id, status, providerPaymentId) ==
  [i \in 1..Len(rows) |->
     IF rows[i].id = id
       THEN [rows[i] EXCEPT
               !.status = IF status \in PaymentStatuses THEN status ELSE @,
               !.providerPaymentId = IF providerPaymentId # Null
                                       THEN providerPaymentId[1] ELSE @]
       ELSE rows[i]]

(* Variant of the update step that fails a webhook for an unknown payment. *)
ApplyPaymentUpdateStrict ==
  /\ hook.pc = "update"
  /\ LET update == hook.payload[1]
         found == {i \in 1..Len(payments) :
                     /\ payments[i].provider = update.provider
                     /\ payments[i].providerPaymentId = update.providerPaymentId}
     IN /\ payments' = IF found = {} THEN payments
                       ELSE updateStatus(payments,
                              payments[CHOOSE i \in found : TRUE].id, update.status,
                              Null)
        /\ hook' = IF found = {}
                     THEN [hook EXCEPT !.pc = "rejected",
                             !.outcome = Failure(404, "PAYMENT_NOT_FOUND")]
                     ELSE [hook EXCEPT !.pc = "done",
                             !.outcome = Success(FALSE, 202, Null)]
  /\ UNCHANGED <<env, now, idem, req, webhookEvents>>

(* findByProviderPaymentId, then updateStatus on the row found, if any. *)
ApplyPaymentUpdate ==
  /\ hook.pc = "update"
  /\ LET update == hook.payload[1]
         found == {i \in 1..Len(payments) :
                     /\ payments[i].provider = update.provider
                     /\ payments[i].providerPaymentId = update.providerPaymentId}
     IN payments' = IF found = {} THEN payments
                    ELSE updateStatus(payments,
                           payments[CHOOSE i \in found : TRUE].id, update.status,
                              Null)
  /\ hook' = [hook EXCEPT !.pc = "done", !.outcome = Success(FALSE, 202, Null)]
  /\ UNCHANGED <<env, now, idem, req, webhookEvents>>

Next ==
  \/ Tick
  \/ \E p \in Requests, k \in Keys, b \in Bodies : StartRequest(p, k, b)
  \/ \E p \in Requests : FindByKey(p)
  \/ \E p \in Requests : Create(p)
  \/ \E p \in Requests : Lock(p)
  \/ \E p \in Requests : HandlerFails(p)
  \/ \E p \in Requests, ppid \in ProviderIds,
          vendorStatus \in {"requires_confirmation", "created"} :
       HandlerSucceeds(p, ppid, vendorStatus)
  \/ \E p \in Requests : StoreResponse(p)

Spec == Init /\ [][Next]_vars

(* The client resubmits a request that ended in an error: same key, same    *)
(* body, a new HTTP call.                                                   *)
Retry(p) ==
  /\ req[p].pc = "done"
  /\ req[p].outcome.kind \in {"error", "thrown"}
  /\ req' = [req EXCEPT ![p] = [IdleRequest EXCEPT
                !.pc = "find", !.key = req[p].key, !.body = req[p].body,
                !.requestHash = hashPayload(req[p].body)]]
  /\ UNCHANGED <<env, now, idem, payments, webhookEvents, hook>>

Step(p) ==
  \/ FindByKey(p)
  \/ Create(p)
  \/ Lock(p)
  \/ HandlerFails(p)
  \/ \E ppid \in ProviderIds, vendorStatus \in {"requires_confirmation", "created"} :
       HandlerSucceeds(p, ppid, vendorStatus)
  \/ StoreResponse(p)

LiveNext ==
  \/ Next
  \/ \E p \in Requests : Retry(p)

(* The clock advances, the event loop runs every pending continuation and   *)
(* the client keeps resubmitting a failed request.                          *)
LiveSpec ==
  /\ Init
  /\ [][LiveNext]_vars
  /\ WF_vars(Tick)
  /\ \A p \in Requests : WF_vars(Step(p)) /\ WF_vars(Retry(p))

(* Webhook processing beside one payment request. *)
NothingConfigured == Configured({}, {})
SecretsMissing == Configured(Providers, {})
ClientsMissing == Configured({}, Providers)

Production == [AllConfigured EXCEPT !.nodeEnv = "production"]

WebhookInit ==
  /\ env \in {AllConfigured, NothingConfigured, SecretsMissing, ClientsMissing,
              Production}
  /\ InitState

WebhookNext ==
  \/ \E k \in Keys, b \in Bodies : StartRequest(1, k, b)
  \/ Step(1)
  \/ \E d \in Deliveries : ReceiveWebhook(d)
  \/ AppendWebhookEvent
  \/ ApplyPaymentUpdate

WebhookSpec == WebhookInit /\ [][WebhookNext]_vars

(* ---------------------------------------------------------- HTTP routes *)
MaxRouteRequests == 2
RouteRequests == 1..MaxRouteRequests

(* String.prototype.trim on the header values the model sends. *)
Trim(text) == IF text \in {"", " ", "   "} THEN "" ELSE text

(* Variant of the middleware that accepts any header that is present. *)
requiresHeaderPresent(header) ==
  IF header = Null THEN Some(Failure(400, "IDEMPOTENCY_KEY_REQUIRED")) ELSE Null

(* requireIdempotencyKey: the error passed to next(), or Null when the key  *)
(* is accepted and stored, as sent, in res.locals.                          *)
requireIdempotencyKey(header) ==
  IF header = Null \/ header[1] = "" \/ Trim(header[1]) = ""
    THEN Some(Failure(400, "IDEMPOTENCY_KEY_REQUIRED"))
    ELSE Null

HeaderValues == {Null, Some("   ")} \cup {Some(k) : k \in StoreKeys}

HasField(body, name) == \E j \in 1..Len(body) : body[j][1] = name

(* createPaymentSchema / confirmPaymentSchema / refundPaymentSchema, by the *)
(* fields the model's bodies carry.                                         *)
createPaymentSchema(body) ==
  /\ HasField(body, "provider") /\ Field(body, "provider") \in Providers
  /\ HasField(body, "amount")
  /\ HasField(body, "currency")
  /\ Len(Field(body, "currency")) >= 3 /\ Len(Field(body, "currency")) <= 10

targetPaymentSchema(body) ==
  HasField(body, "provider") /\ Field(body, "provider") \in Providers

BodyNoProvider == << <<"amount", "100">> >>
CreateBodies == {BodyStripe, BodyNoProvider}

(* metadata: the one key the request's metadata carries, "" for none. *)
BodyConfirm(provider, metadata) ==
  << <<"provider", provider>>, <<"metadata", metadata>> >>
BodyRefund(provider) == << <<"provider", provider>>, <<"reason", "duplicate">> >>

TargetBodies(op) ==
  IF op = "confirm"
    THEN {BodyRazorpay, BodyConfirm("stripe", ""), BodyConfirm("razorpay", ""),
          BodyConfirm("razorpay", "amount"),
          BodyConfirm("razorpay", "captureAmount")}
    ELSE {BodyRefund("stripe")}

PaymentIds == {1, 2}

(* The client sends one request after the other has been answered. *)
MayStart(p) ==
  /\ p \in RouteRequests
  /\ req[p].pc = "idle"
  /\ \A q \in Requests : q < p => req[q].pc = "done"

(* Variant of POST /payments that inserts the key's record before it       *)
(* validates the body.                                                      *)
PostPaymentRecordsKeyFirst(p, header, body) ==
  /\ MayStart(p)
  /\ req' = [req EXCEPT ![p] =
       IF requireIdempotencyKey(header) # Null
         THEN [IdleRequest EXCEPT !.pc = "done",
                 !.outcome = requireIdempotencyKey(header)[1]]
       ELSE IF ~createPaymentSchema(body)
         THEN [IdleRequest EXCEPT !.pc = "done", !.body = body, !.key = header[1],
                 !.outcome = Failure(422, "VALIDATION_FAILED")]
       ELSE [IdleRequest EXCEPT !.pc = "find", !.key = header[1], !.body = body,
               !.requestHash = hashPayload(body)]]
  /\ idem' = IF requireIdempotencyKey(header) = Null /\ idem[header[1]] = Null
               THEN [idem EXCEPT ![header[1]] =
                       Some(NewRow([IdleRequest EXCEPT !.key = header[1],
                                      !.requestHash = hashPayload(body)]))]
               ELSE idem
  /\ UNCHANGED <<env, now, payments, webhookEvents, hook>>

(* POST /payments: requireIdempotencyKey, the schema, then createPayment up *)
(* to the request hash of execute.                                          *)
PostPayment(p, header, body) ==
  /\ MayStart(p)
  /\ req' = [req EXCEPT ![p] =
       IF requireIdempotencyKey(header) # Null
         THEN [IdleRequest EXCEPT !.pc = "done",
                 !.outcome = requireIdempotencyKey(header)[1]]
       ELSE IF ~createPaymentSchema(body)
         THEN [IdleRequest EXCEPT !.pc = "done", !.body = body, !.key = header[1],
                 !.outcome = Failure(422, "VALIDATION_FAILED")]
       ELSE [IdleRequest EXCEPT !.pc = "find", !.key = header[1], !.body = body,
               !.requestHash = hashPayload(body)]]
  /\ UNCHANGED <<env, now, idem, payments, webhookEvents, hook>>

(* POST /payments/:paymentId/confirm and /refund: the same, up to the call  *)
(* of assertPaymentExists.                                                  *)
PostTarget(p, op, header, body, id) ==
  /\ MayStart(p)
  /\ op \in {"confirm", "refund"}
  /\ req' = [req EXCEPT ![p] =
       IF requireIdempotencyKey(header) # Null
         THEN [IdleRequest EXCEPT !.pc = "done", !.op = op,
                 !.outcome = requireIdempotencyKey(header)[1]]
       ELSE IF ~targetPaymentSchema(body)
         THEN [IdleRequest EXCEPT !.pc = "done", !.op = op, !.body = body,
                 !.paymentId = id, !.key = header[1],
                 !.outcome = Failure(422, "VALIDATION_FAILED")]
       ELSE [IdleRequest EXCEPT !.pc = "load", !.op = op, !.key = header[1],
               !.body = body, !.paymentId = id]]
  /\ UNCHANGED <<env, now, idem, payments, webhookEvents, hook>>

(* paymentRepository.findById *)
findById(id) ==
  IF \E i \in 1..Len(payments) : payments[i].id = id
    THEN Some(payments[CHOOSE i \in 1..Len(payments) : payments[i].id = id])
    ELSE Null

(* Variant of the load step that does not compare the providers. *)
LoadPaymentAnyProvider(p) ==
  /\ req[p].pc = "load"
  /\ LET dbPayment == findById(req[p].paymentId) IN
     req' = [req EXCEPT ![p] =
       IF dbPayment = Null
         THEN Finish(p, Failure(404, "PAYMENT_NOT_FOUND"))
       ELSE [req[p] EXCEPT !.pc = "find", !.dbPayment = dbPayment,
               !.requestHash = hashPayload(req[p].body)]]
  /\ UNCHANGED <<env, now, idem, payments, webhookEvents, hook>>

(* confirmPayment / refundPayment before execute: assertPaymentExists and   *)
(* the provider comparison.                                                 *)
LoadPayment(p) ==
  /\ req[p].pc = "load"
  /\ LET dbPayment == findById(req[p].paymentId) IN
     req' = [req EXCEPT ![p] =
       IF dbPayment = Null
         THEN Finish(p, Failure(404, "PAYMENT_NOT_FOUND"))
       ELSE IF dbPayment[1].provider # Field(req[p].body, "provider")
         THEN Finish(p, Failure(409, "PAYMENT_PROVIDER_MISMATCH"))
       ELSE [req[p] EXCEPT !.pc = "find", !.dbPayment = dbPayment,
               !.requestHash = hashPayload(req[p].body)]]
  /\ UNCHANGED <<env, now, idem, payments, webhookEvents, hook>>

(* RazorpayAdapter.confirmPayment: Number(metadata?.captureAmount ??        *)
(* metadata?.amount), Null when that is not a finite number.                *)
amountToCapture(body) ==
  IF HasField(body, "metadata") /\ Field(body, "metadata") \in {"captureAmount", "amount"}
    THEN Some(Field(body, "metadata"))
    ELSE Null

(* What the adapter of a confirm or refund throws before it calls the       *)
(* vendor, if anything.                                                     *)
AdapterRefuses(r) ==
  LET provider == Field(r.body, "provider") IN
  IF ensureClient(provider) # Null THEN ensureClient(provider)
  ELSE IF r.op = "confirm" /\ provider = "razorpay" /\ amountToCapture(r.body) = Null
    THEN Some(Failure(400, "RAZORPAY_CAPTURE_AMOUNT_REQUIRED"))
  ELSE Null

(* The status the adapter returns for the vendor's answer. *)
TargetStatus(r, vendorStatus) ==
  LET provider == Field(r.body, "provider") IN
  IF r.op = "refund" /\ provider = "stripe"
    THEN (IF vendorStatus = "failed" THEN "FAILED" ELSE "REFUNDED")
    ELSE mapStatus(provider, vendorStatus)

(* The status the vendor reports for a confirmation or capture, and for a   *)
(* refund the status of the refund object it returns.                       *)
TargetStatuses(r) ==
  LET provider == Field(r.body, "provider") IN
  CASE r.op = "confirm" /\ provider = "stripe" -> {"succeeded"}
    [] r.op = "confirm" /\ provider = "razorpay" -> {"captured"}
    [] r.op = "confirm" /\ provider = "paypal" -> {"COMPLETED"}
    [] r.op = "refund" /\ provider = "stripe" -> {"succeeded", "pending", "failed"}
    [] r.op = "refund" /\ provider = "razorpay" -> {"processed", "failed"}
    [] r.op = "refund" /\ provider = "paypal" -> {"COMPLETED", "PENDING"}

(* Variant of the failing handler that tries the vendor call again. *)
TargetHandlerRetries(p) ==
  /\ req[p].pc = "handler"
  /\ req[p].op \in {"confirm", "refund"}
  /\ LET refusal == AdapterRefuses(req[p]) IN
     req' = [req EXCEPT ![p] =
               IF refusal # Null
                 THEN [Finish(p, refusal[1]) EXCEPT !.ran = TRUE]
                 ELSE [req[p] EXCEPT !.ran = TRUE, !.called = TRUE]]
  /\ UNCHANGED <<env, now, idem, payments, webhookEvents, hook>>

(* The handler of a confirm or refund throws: the adapter refuses, or the   *)
(* vendor call fails.                                                       *)
TargetHandlerFails(p) ==
  /\ req[p].pc = "handler"
  /\ req[p].op \in {"confirm", "refund"}
  /\ LET refusal == AdapterRefuses(req[p]) IN
     req' = [req EXCEPT ![p] =
               [Finish(p, IF refusal # Null THEN refusal[1]
                          ELSE Thrown("PROVIDER_ERROR"))
                  EXCEPT !.ran = TRUE, !.called = (refusal = Null)]]
  /\ UNCHANGED <<env, now, idem, payments, webhookEvents, hook>>

(* Variant of the handlers in which confirm, like refund, passes no         *)
(* providerPaymentId to updateStatus.                                       *)
TargetProviderPaymentIdOmitted(r, ppid) == Null

(* The providerPaymentId the handler passes to updateStatus: confirm passes *)
(* adapterResponse.providerPaymentId, refund passes none.                   *)
TargetProviderPaymentId(r, ppid) ==
  IF r.op = "confirm" THEN Some(ppid) ELSE Null

(* The vendor call returns (ppid, vendor status); the stored payment takes  *)
(* the mapped status and, on confirm, the id the adapter returned. The      *)
(* update fails on the unique index when another payment of the provider    *)
(* already has that id.                                                     *)
TargetHandlerSucceeds(p, ppid, vendorStatus) ==
  /\ req[p].pc = "handler"
  /\ req[p].op \in {"confirm", "refund"}
  /\ AdapterRefuses(req[p]) = Null
  /\ vendorStatus \in TargetStatuses(req[p])
  /\ LET id == req[p].dbPayment[1].id
         written == TargetProviderPaymentId(req[p], ppid)
         updated == updateStatus(payments, id,
                                 TargetStatus(req[p], vendorStatus), written)
         row == updated[CHOOSE i \in 1..Len(updated) : updated[i].id = id]
         taken == /\ written # Null
                  /\ \E i \in 1..Len(payments) :
                       /\ payments[i].id # id
                       /\ payments[i].provider = req[p].dbPayment[1].provider
                       /\ payments[i].providerPaymentId = written[1]
     IN IF taken
          THEN /\ req' = [req EXCEPT ![p] = [Finish(p, Thrown("P2002_PAYMENT"))
                                               EXCEPT !.ran = TRUE, !.called = TRUE]]
               /\ UNCHANGED payments
          ELSE /\ payments' = updated
               /\ req' = [req EXCEPT ![p].pc = "store", ![p].ran = TRUE,
                            ![p].called = TRUE,
                            ![p].result = Some([statusCode |-> 200,
                                                body |-> HandlerBody(row)])]
  /\ UNCHANGED <<env, now, idem, webhookEvents, hook>>

(* Variant of the route that answers with the stored status code. *)
ResponseWithStoredStatus(r) ==
  IF r.outcome.kind = "ok"
    THEN [status |-> r.outcome.statusCode,
          code |-> "", message |-> "", stack |-> FALSE,
          cached |-> r.outcome.cached]
    ELSE [status |-> errorHandler(r.outcome, env.nodeEnv).status,
          code |-> errorHandler(r.outcome, env.nodeEnv).code,
          message |-> errorHandler(r.outcome, env.nodeEnv).message,
          stack |-> errorHandler(r.outcome, env.nodeEnv).stack,
          cached |-> FALSE]

(* What the route writes to the response: res.status(cached ? 200 :         *)
(* statusCode) with the cached flag, or what errorHandler makes of the      *)
(* error.                                                                   *)
Response(r) ==
  IF r.outcome.kind = "ok"
    THEN [status |-> IF r.outcome.cached THEN 200 ELSE r.outcome.statusCode,
          code |-> "", message |-> "", stack |-> FALSE,
          cached |-> r.outcome.cached]
    ELSE [status |-> errorHandler(r.outcome, env.nodeEnv).status,
          code |-> errorHandler(r.outcome, env.nodeEnv).code,
          message |-> errorHandler(r.outcome, env.nodeEnv).message,
          stack |-> errorHandler(r.outcome, env.nodeEnv).stack,
          cached |-> FALSE]

(* The store after an earlier POST /payments with key k1 and the given body *)
(* has been answered 201.                                                   *)
StoreAfterCreate(body) ==
  LET request == [IdleRequest EXCEPT !.key = "k1", !.body = body,
                    !.requestHash = hashPayload(body)]
      row == [id |-> 1, provider |-> Field(body, "provider"),
              providerPaymentId |-> "pp_1",
              status |-> mapStatus(Field(body, "provider"),
                          CHOOSE v \in CreateStatuses(Field(body, "provider")) : TRUE),
              amount |-> Field(body, "amount"),
              currency |-> toUpperCase(Field(body, "currency")),
              idempotencyKeyId |-> "k1"]
  IN [payments |-> <<row>>,
      idem |-> [k \in StoreKeys |->
                  IF k = "k1"
                    THEN Some(StoredRow(LockedRow(NewRow(request), 0),
                                [statusCode |-> 201, body |-> HandlerBody(row)]))
                    ELSE Null]]

(* The process starts on an empty store or on one that holds one Razorpay   *)
(* payment; Stripe payments are created by the requests.                    *)
RouteInit ==
  /\ env \in {AllConfigured, Production}
  /\ now = 0
  /\ req = [p \in Requests |-> IdleRequest]
  /\ webhookEvents = <<>>
  /\ hook = IdleHook
  /\ \/ idem = [k \in StoreKeys |-> Null] /\ payments = <<>>
     \/ /\ idem = StoreAfterCreate(BodyRazorpay).idem
        /\ payments = StoreAfterCreate(BodyRazorpay).payments

RouteNext ==
  \/ \E p \in RouteRequests, header \in HeaderValues, body \in CreateBodies :
       PostPayment(p, header, body)
  \/ \E p \in RouteRequests, op \in {"confirm", "refund"}, header \in HeaderValues,
          id \in PaymentIds :
       \E body \in TargetBodies(op) : PostTarget(p, op, header, body, id)
  \/ \E p \in RouteRequests : LoadPayment(p)
  \/ \E p \in RouteRequests : Step(p)
  \/ \E p \in RouteRequests : TargetHandlerFails(p)
  \/ \E p \in RouteRequests, ppid \in ProviderIds,
          vendorStatus \in {"succeeded", "captured"} :
       TargetHandlerSucceeds(p, ppid, vendorStatus)

RouteSpec == RouteInit /\ [][RouteNext]_vars

(* --------------------------------------- createPayment for every vendor *)
BodyPayPal ==
  << <<"provider", "paypal">>, <<"amount", "300">>,
     <<"currency", <<"U", "S", "D">> >> >>
VendorBodies == Bodies \cup {BodyPayPal}

VendorInit ==
  /\ env = AllConfigured
  /\ InitState

VendorNext ==
  \/ Tick
  \/ \E p \in Requests, k \in Keys, b \in VendorBodies : StartRequest(p, k, b)
  \/ \E p \in Requests : FindByKey(p)
  \/ \E p \in Requests : Create(p)
  \/ \E p \in Requests : Lock(p)
  \/ \E p \in Requests : HandlerFails(p)
  \/ \E p \in Requests, ppid \in ProviderIds,
          vendorStatus \in {"requires_confirmation", "created", "CREATED"} :
       HandlerSucceeds(p, ppid, vendorStatus)
  \/ \E p \in Requests : StoreResponse(p)

VendorSpec == VendorInit /\ [][VendorNext]_vars

(* ------------------------------------------- the life of a payment row *)
(* Create, confirm, refund and webhook processing on one store. A request   *)
(* is sent when no webhook is being processed and a webhook is delivered    *)
(* when no request is in flight; the route requests follow one another.     *)
LifecycleKeys == {"k1", "k2", "k3"}

(* BodyNoProvider fails each of the three schemas. *)
LifecycleCreateBodies == {BodyStripe, BodyNoProvider}

LifecycleTargetBodies(op) ==
  IF op = "confirm"
    THEN {BodyConfirm("stripe", ""), BodyConfirm("razorpay", "captureAmount"),
          BodyNoProvider}
    ELSE {BodyRefund("stripe"), BodyRefund("razorpay"), BodyNoProvider}

(* The key the client uses for each operation. *)
LifecycleHeader(op) ==
  CASE op = "create" -> Some("k1")
    [] op = "confirm" -> Some("k2")
    [] op = "refund" -> Some("k3")

LifecycleVendorStatuses ==
  {"succeeded", "captured", "pending", "processed"}

(* Verified deliveries with a payment update for either provider payment id. *)
LifecycleDeliveries ==
  {Delivery("stripe", {"stripe-signature"}, "SUCCESS",
            Event("evt_1", <<"payment_intent", "succeeded">>,
                  Object(Some("pp_1"), "succeeded"))),
   Delivery("stripe", {"stripe-signature"}, "SUCCESS",
            Event("evt_6", <<"payment_intent", "canceled">>,
                  Object(Some("pp_2"), "canceled"))),
   Delivery("razorpay", {"x-razorpay-signature"}, "SUCCESS",
            Event("evt_7", <<"payment", "failed">>,
                  Object(Some("pp_2"), "failed")))}

RequestsQuiet == \A p \in Requests : req[p].pc \in {"idle", "done"}
HookQuiet == hook.pc \in {"idle", "rejected", "done"}

(* The store is empty, or holds the payment and the idempotency record of   *)
(* an earlier POST /payments with key k1.                                   *)
LifecycleInit ==
  /\ env = AllConfigured
  /\ now = 0
  /\ req = [p \in Requests |-> IdleRequest]
  /\ webhookEvents = <<>>
  /\ hook = IdleHook
  /\ \/ idem = [k \in LifecycleKeys |-> Null] /\ payments = <<>>
     \/ \E body \in Bodies :
          /\ idem = [k \in LifecycleKeys |->
                       IF k \in StoreKeys THEN StoreAfterCreate(body).idem[k]
                       ELSE Null]
          /\ payments = StoreAfterCreate(body).payments

LifecycleNext ==
  \/ \E p \in RouteRequests, body \in LifecycleCreateBodies :
       HookQuiet /\ PostPayment(p, LifecycleHeader("create"), body)
  \/ \E p \in RouteRequests, op \in {"confirm", "refund"} :
       \E body \in LifecycleTargetBodies(op) :
         HookQuiet /\ PostTarget(p, op, LifecycleHeader(op), body, 1)
  \/ \E p \in RouteRequests : LoadPayment(p)
  \/ \E p \in RouteRequests : Step(p)
  \/ \E p \in RouteRequests : TargetHandlerFails(p)
  \/ \E p \in RouteRequests, ppid \in ProviderIds,
          vendorStatus \in LifecycleVendorStatuses :
       TargetHandlerSucceeds(p, ppid, vendorStatus)
  \/ \E d \in LifecycleDeliveries : RequestsQuiet /\ ReceiveWebhook(d)
  \/ AppendWebhookEvent
  \/ ApplyPaymentUpdate

LifecycleSpec == LifecycleInit /\ [][LifecycleNext]_vars

(* ------------------------------------- the engine with any unit of work *)
(* IdempotencyService.execute<T> called with any request body and any       *)
(* handler: the payloads and the handler results are drawn from small sets. *)
BodyStripeReordered ==
  << <<"amount", "100">>, <<"provider", "stripe">>,
     <<"currency", <<"u", "s", "d">> >> >>
EnginePayloads == {BodyStripe, BodyStripeReordered, MissingBody, EmptyObject}

(* A handler result {statusCode, body}: a body object, or a null body. *)
UnitResults ==
  {[statusCode |-> 200, body |-> <<"obj", 1, "pp_1", "SUCCEEDED">>],
   [statusCode |-> 204, body |-> Null]}

(* execute is entered with (key, requestBody) and computes the request hash. *)
Execute(p, k, payload) ==
  /\ req[p].pc = "idle"
  /\ \A q \in Requests : q < p => req[q].pc # "idle"
  /\ req' = [req EXCEPT ![p] = [IdleRequest EXCEPT
                !.pc = "find", !.op = "unit", !.key = k, !.body = payload,
                !.requestHash = hashPayload(payload)]]
  /\ UNCHANGED <<env, now, idem, payments, webhookEvents, hook>>

(* options.handler returns. *)
UnitReturns(p, result) ==
  /\ req[p].pc = "handler"
  /\ req[p].op = "unit"
  /\ req' = [req EXCEPT ![p].pc = "store", ![p].ran = TRUE,
               ![p].result = Some(result)]
  /\ UNCHANGED <<env, now, idem, payments, webhookEvents, hook>>

(* options.handler throws. *)
UnitThrows(p) ==
  /\ req[p].pc = "handler"
  /\ req[p].op = "unit"
  /\ req' = [req EXCEPT ![p] = [Finish(p, Thrown("HANDLER_ERROR"))
                                  EXCEPT !.ran = TRUE]]
  /\ UNCHANGED <<env, now, idem, payments, webhookEvents, hook>>

EngineInit ==
  /\ env = AllConfigured
  /\ InitState

EngineNext ==
  \/ Tick
  \/ \E p \in Requests, k \in Keys, payload \in EnginePayloads : Execute(p, k, payload)
  \/ \E p \in Requests : FindByKey(p)
  \/ \E p \in Requests : Create(p)
  \/ \E p \in Requests : Lock(p)
  \/ \E p \in Requests, result \in UnitResults : UnitReturns(p, result)
  \/ \E p \in Requests : UnitThrows(p)
  \/ \E p \in Requests : StoreResponse(p)

EngineSpec == EngineInit /\ [][EngineNext]_vars

(* ================================================================ claims *)
Row(k) == idem[k][1]

(* A response is on the row: both response columns are set. *)
Recorded(row) == row.responseCode # Null /\ row.responseBody # Null

(* The findByKey step of request p, with the decision execute takes on it. *)
FindStep(p) == req[p].pc = "find" /\ req'[p].pc # "find"

(* The requests that invoked the unit of work under key k for request hash h. *)
Ran(k, h) ==
  {p \in Requests : /\ req[p].pc # "idle" /\ req[p].ran
                    /\ req[p].key = k /\ req[p].requestHash = h}

(* Request p ran execute to its end: it invoked the unit of work and stored *)
(* the response.                                                            *)
Executed(p) ==
  /\ req[p].pc = "done"
  /\ req[p].outcome.kind = "ok"
  /\ ~req[p].outcome.cached

Replayed(p) ==
  /\ req[p].pc = "done"
  /\ req[p].outcome.kind = "ok"
  /\ req[p].outcome.cached

EndedWith(p, code) ==
  /\ req[p].pc = "done"
  /\ req[p].outcome.kind \in {"error", "thrown"}
  /\ req[p].outcome.code = code

(* C1: concurrent identical requests on an unseen key invoke the unit of     *)
(* work at most once as long as no lock becomes stale. Before the clock      *)
(* reaches the lock timeout no lock written since the start can be stale,    *)
(* so until then at most one request per key may have invoked the handler.   *)
C1_SingleExecution ==
  now < IDEMPOTENCY_LOCK_TIMEOUT_SECONDS =>
    \A k \in Keys, b \in Bodies : Cardinality(Ran(k, hashPayload(b))) <= 1

(* C2: a request that raced on the key with the same body and did not run    *)
(* the unit of work ends with the cached response or with                    *)
(* IDEMPOTENCY_KEY_LOCKED, never with another error.                         *)
C2_LosersCachedOrLocked ==
  \A p \in Requests :
    ( /\ req[p].pc = "done"
      /\ ~req[p].ran
      /\ idem[req[p].key] # Null
      /\ Row(req[p].key).requestHash = req[p].requestHash )
    => (Replayed(p) \/ EndedWith(p, "IDEMPOTENCY_KEY_LOCKED"))

(* C3: once an execute call for (key, body) has completed and stored its     *)
(* response, every later call with the same key and body returns cached=true *)
(* with the stored status code and body and runs no unit of work: no Payment *)
(* row is written.                                                           *)
CompletedFor(k, h) ==
  \E q \in Requests : Executed(q) /\ req[q].key = k /\ req[q].requestHash = h

C3_ReplayReturnsStored ==
  [][\A p \in Requests :
       (FindStep(p) /\ CompletedFor(req[p].key, req[p].requestHash)) =>
         /\ req'[p].pc = "done"
         /\ req'[p].outcome.kind = "ok"
         /\ req'[p].outcome.cached
         /\ Some(req'[p].outcome.statusCode) = Row(req[p].key).responseCode
         /\ JSONstringify(req'[p].outcome.body) = Row(req[p].key).responseBody
         /\ ~req'[p].ran
         /\ UNCHANGED <<idem, payments>>]_vars

C3_Witness ==
  \E p, q \in Requests :
    /\ Replayed(p) /\ Executed(q)
    /\ req[p].key = req[q].key /\ req[p].requestHash = req[q].requestHash
    /\ req[p].outcome.body = req[q].outcome.body

(* C4: at most one Payment row linked to an idempotency key is ever created. *)
PaymentsOf(k) == {i \in 1..Len(payments) : payments[i].idempotencyKeyId = k}

C4_OnePaymentPerKey == \A k \in Keys : Cardinality(PaymentsOf(k)) <= 1

(* C5: a call whose body hash differs from the hash on the key's record      *)
(* fails with IDEMPOTENCY_KEY_MISMATCH (409) and runs no unit of work,       *)
(* whether the record is locked, stale-locked or completed.                  *)
C5_MismatchConflicts ==
  [][\A p \in Requests :
       ( /\ FindStep(p)
         /\ idem[req[p].key] # Null
         /\ Row(req[p].key).requestHash # req[p].requestHash )
       => /\ req'[p].pc = "done"
          /\ req'[p].outcome = Failure(409, "IDEMPOTENCY_KEY_MISMATCH")
          /\ ~req'[p].ran
          /\ UNCHANGED <<idem, payments>>]_vars

C5_Witness ==
  \E p \in Requests :
    /\ EndedWith(p, "IDEMPOTENCY_KEY_MISMATCH")
    /\ req[p].outcome.statusCode = 409
    /\ Recorded(Row(req[p].key))

(* C6: a matching record with no recorded response whose lock is younger     *)
(* than the timeout makes the call fail with IDEMPOTENCY_KEY_LOCKED (425)    *)
(* without running the unit of work.                                         *)
FreshLock(row, t) ==
  row.lockedAt # Null /\ t - row.lockedAt[1] < IDEMPOTENCY_LOCK_TIMEOUT_SECONDS

C6_FreshLockRejects ==
  [][\A p \in Requests :
       ( /\ FindStep(p)
         /\ idem[req[p].key] # Null
         /\ Row(req[p].key).requestHash = req[p].requestHash
         /\ ~Recorded(Row(req[p].key))
         /\ FreshLock(Row(req[p].key), now) )
       => /\ req'[p].pc = "done"
          /\ req'[p].outcome = Failure(425, "IDEMPOTENCY_KEY_LOCKED")
          /\ ~req'[p].ran
          /\ UNCHANGED <<idem, payments>>]_vars

C6_Witness ==
  \E p \in Requests :
    /\ EndedWith(p, "IDEMPOTENCY_KEY_LOCKED")
    /\ req[p].outcome.statusCode = 425
    /\ ~req[p].ran

(* C7: a matching record with no recorded response whose lock age has        *)
(* reached the timeout (the boundary included; a lock never written has no   *)
(* finite age) is re-acquired: the call goes on to set lockedAt to now, to   *)
(* invoke the unit of work and to store its response. An existing record is  *)
(* re-acquired in no other case.                                             *)
StaleLock(row, t) ==
  row.lockedAt = Null \/ t - row.lockedAt[1] >= IDEMPOTENCY_LOCK_TIMEOUT_SECONDS

Reacquirable(p) ==
  /\ idem[req[p].key] # Null
  /\ Row(req[p].key).requestHash = req[p].requestHash
  /\ ~Recorded(Row(req[p].key))
  /\ StaleLock(Row(req[p].key), now)

C7_StaleLockReacquired ==
  [][\A p \in Requests :
       /\ (FindStep(p) /\ Reacquirable(p)) =>
            (req'[p].pc = "lock" /\ req'[p].existing)
       /\ (FindStep(p) /\ req'[p].pc = "lock") => Reacquirable(p)
       /\ (req[p].pc = "lock" /\ req'[p].pc # "lock") =>
            /\ req'[p].pc = "handler"
            /\ Row(req[p].key)'.lockedAt = Some(now)
       /\ (req[p].pc = "store" /\ req'[p].pc # "store") =>
            /\ req[p].ran
            /\ Executed(p)'
            /\ Row(req[p].key)'.responseCode = Some(req[p].result[1].statusCode)
            /\ Row(req[p].key)'.responseBody = JSONstringify(req[p].result[1].body)
    ]_vars

C7_Witness ==
  \E p, q \in Requests :
    /\ p # q
    /\ req[p].key = req[q].key /\ req[p].requestHash = req[q].requestHash
    /\ EndedWith(q, "PROVIDER_ERROR")
    /\ req[p].existing /\ Executed(p)
    /\ Row(req[p].key).lockedAt = Some(now)
    /\ now >= IDEMPOTENCY_LOCK_TIMEOUT_SECONDS

(* C8: a record that has a recorded response keeps exactly that response.    *)
C8_ResponseImmutable ==
  [][\A k \in Keys :
       (idem[k] # Null /\ Recorded(Row(k))) =>
         /\ Row(k)'.responseCode = Row(k).responseCode
         /\ Row(k)'.responseBody = Row(k).responseBody]_vars

(* C9: a record left without a response does not block its key forever: a  *)
(* client that keeps retrying the same key and body is admitted to the unit  *)
(* of work once the lock timeout has elapsed (stated for locks written early *)
(* enough for the timeout to elapse within the model's clock).               *)
Admitted(k) == \E p \in Requests : req[p].key = k /\ req[p].pc = "handler"

LeftLocked(k) ==
  /\ idem[k] # Null
  /\ ~Recorded(Row(k))
  /\ Row(k).lockedAt # Null
  /\ Row(k).lockedAt[1] + IDEMPOTENCY_LOCK_TIMEOUT_SECONDS <= MaxTime

Completed(k) == idem[k] # Null /\ Recorded(Row(k))

C9_RetryEventuallyAdmitted ==
  \A k \in Keys : LeftLocked(k) ~> (Admitted(k) \/ Completed(k))

C9_Witness ==
  \E p \in Requests :
    /\ req[p].pc = "handler" /\ req[p].existing
    /\ now >= IDEMPOTENCY_LOCK_TIMEOUT_SECONDS
    /\ \A q \in Requests : q # p => req[q].pc = "idle"

(* The header that carries each vendor's signature. *)
SignatureHeader(provider) ==
  CASE provider = "stripe" -> "stripe-signature"
    [] provider = "razorpay" -> "x-razorpay-signature"
    [] provider = "paypal" -> "paypal-transmission-sig"

(* The deliveries whose provider, headers and verification result are      *)
(* those of the delivery processWebhook holds after the step.               *)
Received ==
  {[hook'.delivery EXCEPT !.event = e] : e \in Events(hook'.delivery.provider)}

(* The step is processWebhook taking up the delivery d. *)
Receives(d) == hook' # hook /\ ReceiveWebhook(d)

BadSignature(d) ==
  \/ SignatureHeader(d.provider) \notin d.headers
  \/ d.verification # "SUCCESS"

PaymentModified ==
  \E i \in 1..Len(payments) : i <= Len(payments') /\ payments'[i] # payments[i]

(* C10: for every provider, a webhook whose signature is missing or fails   *)
(* verification is rejected by processWebhook with an error and leaves the  *)
(* webhook log and every payment row as they were; the log grows and a      *)
(* payment row is modified only on behalf of a delivery whose signature was *)
(* present and verified.                                                    *)
C10_BadSignatureRejected ==
  [][/\ \A d \in Received :
          (BadSignature(d) /\ Receives(d)) =>
            /\ hook'.pc = "rejected"
            /\ hook'.outcome.kind \in {"error", "thrown"}
            /\ webhookEvents' = webhookEvents
            /\ payments' = payments
     /\ (webhookEvents' # webhookEvents \/ PaymentModified) =>
          /\ hook.pc \in {"log", "update"}
          /\ ~BadSignature(hook.delivery)]_vars

(* A Razorpay delivery with the header present and a wrong digest has been  *)
(* rejected while a Razorpay payment is stored and the log is empty.        *)
C10_Witness ==
  /\ hook.pc = "rejected"
  /\ hook.delivery.provider = "razorpay"
  /\ "x-razorpay-signature" \in hook.delivery.headers
  /\ hook.delivery.verification = "FAILURE"
  /\ hook.outcome.code = "RAZORPAY_WEBHOOK_VERIFICATION_FAILED"
  /\ \E i \in 1..Len(payments) : payments[i].provider = "razorpay"
  /\ webhookEvents = <<>>

(* A delivery the adapter has everything to accept: the signature is        *)
(* present and verifies, PayPal's five headers are there, and the secret    *)
(* and (where the adapter uses it) the vendor client are configured.        *)
PassesVerification(d) ==
  /\ ~BadSignature(d)
  /\ d.provider = "paypal" => PayPalRequiredHeaders \subseteq d.headers
  /\ d.provider \in env.webhookSecret
  /\ d.provider # "razorpay" => d.provider \in env.client

MatchesNoPayment(update) ==
  ~\E i \in 1..Len(payments) :
      /\ payments[i].provider = update.provider
      /\ payments[i].providerPaymentId = update.providerPaymentId

(* C11: every webhook that passes verification goes on to be logged and     *)
(* appends exactly one WebhookEvent row (the log changes in no other step); *)
(* the step after the log modifies no row of the log, ends the call         *)
(* successfully, and leaves every Payment row as it was when the update     *)
(* matches no stored payment.                                               *)
C11_VerifiedWebhookRecorded ==
  [][/\ \A d \in Received :
          (PassesVerification(d) /\ Receives(d)) =>
            hook'.pc = "log"
     /\ (hook.pc = "log" /\ hook' # hook) =>
          /\ webhookEvents' = Append(webhookEvents, WebhookRow(hook.delivery))
          /\ payments' = payments
          /\ hook'.pc = IF hook.payload # Null THEN "update" ELSE "done"
     /\ (hook.pc = "update" /\ hook' # hook) =>
          /\ webhookEvents' = webhookEvents
          /\ hook'.pc = "done"
          /\ MatchesNoPayment(hook.payload[1]) => payments' = payments
     /\ (hook' # hook /\ hook'.pc = "done") => hook'.outcome.kind = "ok"
     /\ webhookEvents' # webhookEvents => hook.pc = "log"]_vars

(* A verified webhook with an update for an unknown payment has returned:   *)
(* one row is logged and the stored payment is as it was created.           *)
C11_Witness ==
  /\ hook.pc = "done"
  /\ hook.outcome.kind = "ok"
  /\ hook.payload # Null
  /\ MatchesNoPayment(hook.payload[1])
  /\ Len(webhookEvents) = 1
  /\ webhookEvents[1].eventId = hook.delivery.event.id
  /\ Len(payments) = 1

(* The vendor statuses each adapter's mapper names. *)
RecognizedStatuses(provider) ==
  CASE provider = "stripe" ->
         {"canceled", "processing", "requires_action", "requires_capture",
          "requires_confirmation", "requires_payment_method", "succeeded"}
    [] provider = "razorpay" ->
         {"created", "authorized", "captured", "failed", "refunded"}
    [] provider = "paypal" ->
         {"COMPLETED", "CAPTURED", "PENDING", "APPROVED", "CREATED",
          "REFUNDED", "VOIDED", "DECLINED"}

(* C13: for each adapter, a vendor status outside the adapter's recognized  *)
(* set (an absent status included) is mapped to PENDING.                    *)
C13_UnknownStatusIsPending ==
  (/\ hook.pc \in {"log", "update", "done"}
   /\ hook.payload # Null
   /\ hook.delivery.event.object # Null
   /\ hook.delivery.event.object[1].status
        \notin RecognizedStatuses(hook.delivery.provider))
  => hook.payload[1].status = "PENDING"

PayPalHeadersIncomplete(d) ==
  d.provider = "paypal" /\ ~(PayPalRequiredHeaders \subseteq d.headers)

PayPalRejectedWith(code) ==
  /\ hook'.pc = "rejected"
  /\ hook'.outcome = Failure(400, code)
  /\ payments' = payments

C17_StripeVerificationErrorTyped ==
  (/\ hook.pc = "rejected"
   /\ hook.delivery.provider = "stripe"
   /\ "stripe-signature" \in hook.delivery.headers
   /\ "stripe" \in env.webhookSecret
   /\ "stripe" \in env.client
   /\ hook.delivery.verification # "SUCCESS")
  => /\ hook.outcome.kind = "error"
     /\ errorHandler(hook.outcome, env.nodeEnv).status \in 400..499
     /\ errorHandler(hook.outcome, env.nodeEnv).code # "INTERNAL_SERVER_ERROR"

Stored(id) == \E i \in 1..Len(payments) : payments[i].id = id

StoredWithOtherProvider(id, provider) ==
  \E i \in 1..Len(payments) : payments[i].id = id /\ payments[i].provider # provider

RefusedUntouched(p, status, code) ==
  /\ req'[p].pc = "done"
  /\ req'[p].outcome = Failure(status, code)
  /\ Response(req'[p]).status = status
  /\ ~req'[p].ran /\ ~req'[p].called
  /\ payments' = payments
  /\ idem' = idem

(* C12: a confirm or refund whose payment id is not stored fails with       *)
(* PAYMENT_NOT_FOUND (404), and one whose provider differs from the stored  *)
(* payment's fails with PAYMENT_PROVIDER_MISMATCH (409); in both cases the  *)
(* handler is not entered, no provider call is made, and the Payment and    *)
(* IdempotencyKey tables are unchanged.                                     *)
C12_TargetChecksBeforeExecute ==
  [][\A p \in RouteRequests :
       (req[p].pc = "load" /\ req'[p] # req[p]) =>
         /\ ~Stored(req[p].paymentId) =>
              RefusedUntouched(p, 404, "PAYMENT_NOT_FOUND")
         /\ StoredWithOtherProvider(req[p].paymentId, Field(req[p].body, "provider")) =>
              RefusedUntouched(p, 409, "PAYMENT_PROVIDER_MISMATCH")]_vars

(* A refund that names another provider than the stored payment's has been  *)
(* answered 409 with a key the store has never seen.                        *)
C12_Witness ==
  \E p \in RouteRequests :
    /\ req[p].pc = "done"
    /\ req[p].op = "refund"
    /\ req[p].outcome.code = "PAYMENT_PROVIDER_MISMATCH"
    /\ Stored(req[p].paymentId)
    /\ idem[req[p].key] = Null

(* C14: a POST /payments that ran the unit of work is answered 201 with     *)
(* cached=false and a replay of a completed key 200 with cached=true; a     *)
(* confirm or refund is answered 200 either way, cached exactly on replay.  *)
C14_RouteStatusCodes ==
  \A p \in RouteRequests :
    (req[p].pc = "done" /\ req[p].outcome.kind = "ok") =>
      /\ Response(req[p]).cached = ~req[p].ran
      /\ Response(req[p]).status =
           IF req[p].op = "create" /\ req[p].ran THEN 201 ELSE 200

(* A confirm that ran and its replay have both been answered 200. *)
C14_Witness ==
  \E p, q \in RouteRequests :
    /\ req[p].pc = "done" /\ req[p].op = "confirm" /\ req[p].ran
    /\ req[p].outcome.kind = "ok" /\ Response(req[p]).status = 200
    /\ req[q].pc = "done" /\ req[q].op = "confirm" /\ ~req[q].ran
    /\ req[q].outcome.kind = "ok" /\ req[q].outcome.cached

BlankHeader(header) == header = Null \/ header[1] \in {"", " ", "   "}

(* C15: a create, confirm or refund request whose Idempotency-Key header is *)
(* missing or blank is answered IDEMPOTENCY_KEY_REQUIRED (400), whatever    *)
(* its body: the body is not validated, the handler is not entered, no      *)
(* provider call is made and the IdempotencyKey and Payment tables are      *)
(* unchanged.                                                               *)
C15_KeyRequiredFirst ==
  [][\A p \in RouteRequests, header \in HeaderValues :
       (/\ req[p].pc = "idle" /\ req'[p].pc # "idle"
        /\ BlankHeader(header)
        /\ \/ \E body \in CreateBodies : PostPayment(p, header, body)
           \/ \E op \in {"confirm", "refund"}, id \in PaymentIds :
                \E body \in TargetBodies(op) : PostTarget(p, op, header, body, id))
       => RefusedUntouched(p, 400, "IDEMPOTENCY_KEY_REQUIRED")]_vars

(* A refund without a usable key has been refused while a payment is stored. *)
C15_Witness ==
  \E p \in RouteRequests :
    /\ req[p].pc = "done"
    /\ req[p].op = "refund"
    /\ req[p].outcome.code = "IDEMPOTENCY_KEY_REQUIRED"
    /\ payments # <<>>

(* C18: a Razorpay confirm whose metadata carries no captureAmount fails    *)
(* with RAZORPAY_CAPTURE_AMOUNT_REQUIRED (400) and makes no capture call.   *)
C18_CaptureAmountRequired ==
  [][\A p \in RouteRequests :
       (/\ req[p].pc = "handler" /\ req'[p] # req[p]
        /\ req[p].op = "confirm"
        /\ Field(req[p].body, "provider") = "razorpay"
        /\ Field(req[p].body, "metadata") # "captureAmount")
       => /\ req'[p].outcome = Failure(400, "RAZORPAY_CAPTURE_AMOUNT_REQUIRED")
          /\ ~req'[p].called]_vars

NotConfiguredCodes == {NotConfiguredCode(provider) : provider \in Providers}

(* C19: a request for a provider without credentials fails in the handler,  *)
(* not before, with that provider's *_NOT_CONFIGURED error (500) and no     *)
(* Payment row written; a request for a configured provider never ends      *)
(* with a *_NOT_CONFIGURED error.                                           *)
C19_NotConfiguredOnUse ==
  [][\A p \in Requests :
       LET provider == Field(req[p].body, "provider") IN
       /\ (req[p].pc = "handler" /\ req'[p] # req[p] /\ provider \notin env.client) =>
            /\ req'[p].outcome = Failure(500, NotConfiguredCode(provider))
            /\ ~req'[p].called
            /\ payments' = payments
       /\ (req'[p].outcome # req[p].outcome
             /\ req'[p].outcome.code \in NotConfiguredCodes) =>
            /\ req[p].pc = "handler"
            /\ Field(req[p].body, "provider") \notin env.client]_vars

(* Without Razorpay credentials a Razorpay payment request has reached the  *)
(* handler and failed there; nothing is stored for it.                      *)
C19_Witness ==
  /\ "razorpay" \notin env.client
  /\ "stripe" \in env.client
  /\ \E p \in Requests :
       /\ req[p].pc = "done"
       /\ req[p].ran
       /\ req[p].outcome = Failure(500, "RAZORPAY_NOT_CONFIGURED")
  /\ payments = <<>>

(* C20: the error handler answers an error that is not an AppError with     *)
(* 500 INTERNAL_SERVER_ERROR and the message 'Internal Server Error', an    *)
(* AppError with its own status and code, and sends a stack only when       *)
(* NODE_ENV is not production.                                              *)
C20_ErrorHandler ==
  \A p \in RouteRequests :
    (req[p].pc = "done" /\ req[p].outcome.kind \in {"error", "thrown"}) =>
      /\ req[p].outcome.kind = "thrown" =>
           /\ Response(req[p]).status = 500
           /\ Response(req[p]).code = "INTERNAL_SERVER_ERROR"
           /\ Response(req[p]).message = "Internal Server Error"
      /\ req[p].outcome.kind = "error" =>
           /\ Response(req[p]).status = req[p].outcome.statusCode
           /\ Response(req[p]).code = req[p].outcome.code
      /\ Response(req[p]).stack => env.nodeEnv # "production"

(* In production a vendor error and an AppError have both been answered.    *)
C20_Witness ==
  /\ env.nodeEnv = "production"
  /\ \E p, q \in RouteRequests :
       /\ req[p].pc = "done" /\ req[p].outcome.kind = "thrown"
       /\ ~Response(req[p]).stack
       /\ req[q].pc = "done" /\ req[q].outcome.kind = "error"
       /\ Response(req[q]).status = 409

(* The key-to-value mapping a request body stands for; none for no body. *)
Mapping(body) ==
  IF body = MissingBody THEN {} ELSE {body[i] : i \in 1..Len(body)}

(* Request p was the first to see its key: it inserted the key's record. *)
CreatedRecord(p) ==
  /\ req[p].pc \in {"lock", "handler", "store", "done"}
  /\ ~req[p].existing
  /\ ~EndedWith(p, "P2002_KEY")

(* C21: the request fingerprint depends only on the content of the body: two *)
(* bodies that are the same key-to-value mapping, whatever the order of their *)
(* keys, and likewise no body and the empty object, get the same requestHash, *)
(* so the second of two such requests under one key is never answered with   *)
(* IDEMPOTENCY_KEY_MISMATCH.                                                 *)
C21_HashByContent ==
  \A p, q \in Requests :
    ( /\ req[p].pc # "idle" /\ req[q].pc # "idle"
      /\ Mapping(req[p].body) = Mapping(req[q].body) )
    => /\ req[p].requestHash = req[q].requestHash
       /\ (req[p].key = req[q].key /\ CreatedRecord(q)) =>
            ~EndedWith(p, "IDEMPOTENCY_KEY_MISMATCH")

(* C24: whatever result {statusCode, body} the unit of work returns, the     *)
(* first execution returns it with cached=false and leaves the record        *)
(* COMPLETED with that status code and body, a null body included: the       *)
(* record then passes the completed test, so the next identical request is   *)
(* replayed.                                                                 *)
C24_EveryResultStored ==
  [][\A p \in Requests :
       (req[p].pc = "store" /\ req'[p].pc # "store") =>
         LET result == req[p].result[1] IN
         /\ req'[p].outcome = Success(FALSE, result.statusCode, result.body)
         /\ HasResponse(Row(req[p].key)')
         /\ Row(req[p].key)'.responseCode = Some(result.statusCode)
         /\ result.body # Null =>
              Row(req[p].key)'.responseBody = JSONstringify(result.body)]_vars

(* C22: every idempotency record is LOCKED (lock timestamp set) or COMPLETED *)
(* (response recorded) whenever another request can read it, and a key that  *)
(* has a record never goes back to having none.                              *)
C22_RecordLockedOrCompleted ==
  [][\A k \in StoreKeys :
       /\ idem'[k] # Null => (Row(k)'.lockedAt # Null \/ Recorded(Row(k)'))
       /\ idem[k] # Null => idem'[k] # Null]_vars

(* C23: within one execute call the record exists before the lock write, the *)
(* lock write (lockedAt = now) is what lets the call go on to the unit of    *)
(* work, the unit of work is invoked only from there, and a response is      *)
(* written to a record only by a call whose unit of work has returned.       *)
C23_ExecuteOrder ==
  [][/\ \A p \in Requests :
          /\ (req[p].pc # "lock" /\ req'[p].pc = "lock") =>
               idem'[req'[p].key] # Null
          /\ (req[p].pc # "handler" /\ req'[p].pc = "handler") =>
               /\ req[p].pc = "lock"
               /\ idem[req[p].key] # Null
               /\ Row(req[p].key)'.lockedAt = Some(now)
               /\ ~req[p].ran
          /\ (~req[p].ran /\ req'[p].ran) => req[p].pc = "handler"
          /\ (req[p].pc # "store" /\ req'[p].pc = "store") =>
               (req[p].pc = "handler" /\ req'[p].result # Null)
     /\ \A k \in StoreKeys :
          ( /\ idem[k] # Null /\ idem'[k] # Null
            /\ \/ Row(k)'.responseCode # Row(k).responseCode
               \/ Row(k)'.responseBody # Row(k).responseBody ) =>
          \E p \in Requests :
            /\ req[p].pc = "store" /\ req[p].key = k
            /\ req[p].ran /\ req[p].result # Null
            /\ req'[p].pc = "done"]_vars

(* A call that created its record has locked it, run the unit of work and    *)
(* stored the response.                                                      *)
C23_Witness ==
  \E p \in Requests :
    /\ Executed(p) /\ ~req[p].existing /\ req[p].ran
    /\ Row(req[p].key).lockedAt # Null
    /\ Row(req[p].key).responseCode = Some(req[p].outcome.statusCode)

(* Request p entered the unit of work and the unit of work threw. *)
UnitFailed(p) ==
  /\ req[p].pc = "done" /\ req[p].ran
  /\ req[p].outcome.kind \in {"error", "thrown"}

(* C25: when the unit of work fails, execute ends with that error, writes    *)
(* nothing to the record (no response, the lock stays) and no Payment row;   *)
(* an identical request on the record the failed call left, while it holds   *)
(* no response and the lock is younger than the timeout, is answered         *)
(* IDEMPOTENCY_KEY_LOCKED; and whatever is replayed with cached=true is the  *)
(* result of an execution that returned, never a failure.                    *)
C25_FailureNotCached ==
  [][\A p \in Requests :
       /\ (req[p].pc = "handler" /\ req'[p].pc = "done") =>
            /\ UnitFailed(p)'
            /\ idem' = idem /\ payments' = payments
            /\ Row(req[p].key).lockedAt # Null
       /\ ( /\ FindStep(p)
            /\ \E q \in Requests :
                 /\ q # p /\ UnitFailed(q)
                 /\ req[q].key = req[p].key /\ req[q].requestHash = req[p].requestHash
            /\ ~Recorded(Row(req[p].key))
            /\ FreshLock(Row(req[p].key), now) ) =>
            /\ req'[p].outcome = Failure(425, "IDEMPOTENCY_KEY_LOCKED")
            /\ ~req'[p].ran
            /\ idem' = idem
       /\ (FindStep(p) /\ req'[p].outcome.cached) =>
            \E q \in Requests :
              /\ Executed(q) /\ req[q].key = req[p].key
              /\ req'[p].outcome.kind = "ok"
              /\ req'[p].outcome.body = req[q].outcome.body]_vars

(* The vendor call of one request failed and the identical retry was         *)
(* answered IDEMPOTENCY_KEY_LOCKED within the timeout; the record holds no   *)
(* response.                                                                 *)
C25_Witness ==
  \E p, q \in Requests :
    /\ p # q
    /\ EndedWith(q, "PROVIDER_ERROR") /\ req[q].ran
    /\ EndedWith(p, "IDEMPOTENCY_KEY_LOCKED") /\ req[p].existing
    /\ req[p].key = req[q].key /\ req[p].requestHash = req[q].requestHash
    /\ ~Recorded(Row(req[p].key)) /\ Row(req[p].key).lockedAt # Null
    /\ now < IDEMPOTENCY_LOCK_TIMEOUT_SECONDS

(* Another call with the same key and body is inside or past the unit of     *)
(* work and has not stored its response yet.                                 *)
StillRunning(p) ==
  \E q \in Requests :
    /\ q # p /\ req[q].pc \in {"handler", "store"}
    /\ req[q].key = req[p].key /\ req[q].requestHash = req[p].requestHash

Started(p) == req[p].pc \in {"handler", "store"} \/ (req[p].pc = "done" /\ req[p].ran)

(* C27: all executions of the unit of work under one key were started by     *)
(* requests with the same request hash, the hash on the key's record.        *)
C27_OneBodyPerKey ==
  \A p, q \in Requests :
    (Started(p) /\ Started(q) /\ req[p].key = req[q].key) =>
      /\ req[p].requestHash = req[q].requestHash
      /\ Row(req[p].key).requestHash = req[p].requestHash

(* Two concurrent requests with one key and different bodies both found no   *)
(* record; one ran the unit of work and the other's insert was refused.      *)
C27_Witness ==
  \E p, q \in Requests :
    /\ req[p].key = req[q].key /\ req[p].requestHash # req[q].requestHash
    /\ Started(p) /\ req[p].ran
    /\ EndedWith(q, "P2002_KEY") /\ ~req[q].ran

C28_LookupByKeyAlone ==
  [][\A p \in RouteRequests :
       ( /\ FindStep(p)
         /\ idem[req[p].key] # Null
         /\ Row(req[p].key).endpoint # Endpoint(req[p]) ) =>
       /\ Row(req[p].key).requestHash # req[p].requestHash =>
            req'[p].outcome = Failure(409, "IDEMPOTENCY_KEY_MISMATCH")
       /\ ( /\ Row(req[p].key).requestHash = req[p].requestHash
            /\ Recorded(Row(req[p].key)) ) =>
            req'[p].outcome = Success(TRUE, Row(req[p].key).responseCode[1],
                                      JSONparse(Row(req[p].key).responseBody))
       /\ (Row(req[p].key).requestHash # req[p].requestHash \/ Recorded(Row(req[p].key))) =>
            /\ req'[p].pc = "done" /\ ~req'[p].ran
            /\ UNCHANGED <<idem, payments>>]_vars

(* A confirmation sent with the key and the body of the payment's creation   *)
(* has been answered the creation's stored response.                         *)
C28_Witness ==
  \E p \in RouteRequests :
    /\ Replayed(p) /\ req[p].op = "confirm" /\ ~req[p].ran
    /\ Row(req[p].key).endpoint = <<"/payments">>
    /\ Some(req[p].outcome.statusCode) = Row(req[p].key).responseCode
    /\ req[p].outcome.statusCode = 201

(* C30: one execute call invokes the unit of work at most once and one       *)
(* invocation ends with its first provider call: the step of the unit of     *)
(* work leads to the response write or to the end of the request, a request  *)
(* that has invoked it never goes back to the lookup, the lock or the unit   *)
(* of work, and when the provider call fails no Payment row is created or    *)
(* updated.                                                                  *)
C30_NoRetryInsideRequest ==
  [][\A p \in RouteRequests :
       /\ (req[p].pc = "handler" /\ req'[p] # req[p]) =>
            (req'[p].pc \in {"store", "done"} /\ req'[p].ran)
       /\ req[p].ran => req'[p].pc \in {"store", "done"}
       /\ req[p].called => (req'[p].called /\ req'[p].pc \in {"store", "done"})
       /\ ( /\ req[p].pc = "handler" /\ req'[p].pc = "done"
            /\ req'[p].outcome = Thrown("PROVIDER_ERROR") ) =>
            (req'[p].called /\ payments' = payments /\ idem' = idem)]_vars

(* The vendor call of a confirmation failed: the request ended with that     *)
(* error after one call and the stored payment is as it was loaded.          *)
C30_Witness ==
  \E p \in RouteRequests :
    /\ EndedWith(p, "PROVIDER_ERROR") /\ req[p].op = "confirm"
    /\ req[p].ran /\ req[p].called
    /\ findById(req[p].paymentId) = req[p].dbPayment
    /\ ~Recorded(Row(req[p].key))

(* The stored payments the update of the webhook in hand is matched to.      *)
MatchedPayments ==
  {i \in 1..Len(payments) :
     /\ payments[i].provider = hook.payload[1].provider
     /\ payments[i].providerPaymentId = hook.payload[1].providerPaymentId}

(* C31: when a verified webhook carries a payment update for a stored        *)
(* payment (same provider and providerPaymentId), the update step sets that  *)
(* payment's status to the event's mapped status whatever the current status *)
(* is; no update is refused.                                                 *)
C31_WebhookOverwritesStatus ==
  [][(hook.pc = "update" /\ hook'.pc = "done") =>
       \A i \in MatchedPayments :
         payments'[i].status = hook.payload[1].status]_vars

(* C32: in processWebhook the WebhookEvent row is appended after the         *)
(* adapter has verified the delivery and before any Payment row is touched:  *)
(* the log grows only in the step that follows a successful verification,    *)
(* that step changes no Payment row, and a Payment row changes on behalf of  *)
(* a webhook only in the step after it, with the event's row already last in *)
(* the log. A verified event whose payload is null appends its row, changes  *)
(* no Payment row and ends the call. No step of processWebhook changes the   *)
(* idempotency store.                                                        *)
C32_LogBeforePaymentUpdate ==
  [][/\ webhookEvents' # webhookEvents =>
          /\ hook.pc = "log"
          /\ PassesVerification(hook.delivery)
          /\ webhookEvents' = Append(webhookEvents, WebhookRow(hook.delivery))
          /\ payments' = payments
     /\ (hook.pc = "log" /\ hook' # hook /\ hook.payload = Null) =>
          /\ webhookEvents' = Append(webhookEvents, WebhookRow(hook.delivery))
          /\ payments' = payments
          /\ hook'.pc = "done"
     /\ (hook' # hook /\ payments' # payments) =>
          /\ hook.pc = "update"
          /\ webhookEvents' = webhookEvents
          /\ webhookEvents # <<>>
          /\ webhookEvents[Len(webhookEvents)] = WebhookRow(hook.delivery)
     /\ hook' # hook => idem' = idem]_vars

(* A verified account-level Stripe event has been processed while a payment  *)
(* and its idempotency record are stored: its row is in the log and the      *)
(* payment is as it was created.                                             *)
C32_Witness ==
  /\ hook.pc = "done"
  /\ hook.payload = Null
  /\ hook.delivery.provider = "stripe"
  /\ hook.delivery.event.id = "evt_2"
  /\ webhookEvents = <<WebhookRow(hook.delivery)>>
  /\ Len(payments) = 1
  /\ payments[1].status = "REQUIRES_ACTION"
  /\ Recorded(Row("k1"))

(* No character of the text is a lower-case letter. *)
IsUpperCase(text) == \A i \in 1..Len(text) : text[i] \notin LowerCaseLetters

(* Request p's handler step, of the given operation, on the payment with id. *)
HandlerStepOn(p, op, id) ==
  /\ req[p].pc = "handler" /\ req'[p].pc = "store"
  /\ req[p].op = op
  /\ req[p].dbPayment # Null /\ req[p].dbPayment[1].id = id

(* C33: across create, confirm, refund and webhook operations no Payment    *)
(* row is deleted and a stored payment keeps its id, provider, amount,      *)
(* currency and idempotency key reference; a row is added only by a create  *)
(* handler, providerPaymentId changes only in a confirm handler's update of *)
(* that payment, status changes only there, in a refund handler's update or *)
(* in the update step of a webhook; and the stored currency is upper case.  *)
C33_PaymentIdentityFixed ==
  [][/\ Len(payments') >= Len(payments)
     /\ \A i \in 1..Len(payments) :
          /\ payments'[i].id = payments[i].id
          /\ payments'[i].provider = payments[i].provider
          /\ payments'[i].amount = payments[i].amount
          /\ payments'[i].currency = payments[i].currency
          /\ payments'[i].idempotencyKeyId = payments[i].idempotencyKeyId
          /\ payments'[i].providerPaymentId # payments[i].providerPaymentId =>
               \E p \in RouteRequests : HandlerStepOn(p, "confirm", payments[i].id)
          /\ payments'[i].status # payments[i].status =>
               \/ \E p \in RouteRequests :
                    \/ HandlerStepOn(p, "confirm", payments[i].id)
                    \/ HandlerStepOn(p, "refund", payments[i].id)
               \/ hook.pc = "update" /\ hook'.pc = "done"
     /\ Len(payments') > Len(payments) =>
          /\ Len(payments') = Len(payments) + 1
          /\ \E p \in RouteRequests :
               /\ req[p].pc = "handler" /\ req'[p].pc = "store"
               /\ req[p].op = "create"
     /\ \A i \in 1..Len(payments') :
          /\ payments'[i].id = i
          /\ IsUpperCase(payments'[i].currency)
          /\ Len(payments'[i].currency) >= 3]_vars

(* A Stripe payment created with currency "usd" has been confirmed under a   *)
(* new provider payment id and then failed by a webhook: the row still has   *)
(* its id, provider and amount, and its currency is USD.                     *)
C33_Witness ==
  /\ Len(payments) = 1
  /\ payments[1] = [id |-> 1, provider |-> "stripe", providerPaymentId |-> "pp_2",
                    status |-> "FAILED", amount |-> "100",
                    currency |-> <<"U", "S", "D">>, idempotencyKeyId |-> "k1"]
  /\ req[1].op = "create" /\ req[1].pc = "done" /\ req[1].outcome.statusCode = 201
  /\ Field(req[1].body, "currency") = <<"u", "s", "d">>
  /\ req[2].op = "confirm" /\ req[2].pc = "done" /\ req[2].outcome.kind = "ok"
  /\ hook.pc = "done" /\ hook.delivery.event.id = "evt_6"

(* The refund statuses each vendor documents, and those among them that      *)
(* denote a completed refund.                                                *)
VendorRefundStatuses(provider) ==
  CASE provider = "stripe" ->
         {"pending", "requires_action", "succeeded", "failed", "canceled"}
    [] provider = "razorpay" -> {"pending", "processed", "failed"}
    [] provider = "paypal" -> {"CANCELLED", "FAILED", "PENDING", "COMPLETED"}

CompletedRefundStatuses(provider) ==
  CASE provider = "stripe" -> {"succeeded"}
    [] provider = "razorpay" -> {"processed"}
    [] provider = "paypal" -> {"COMPLETED"}

(* C34: when a refund handler's vendor call returns, the status written to  *)
(* the payment is PENDING for a refund status the vendor does not document, *)
(* and is REFUNDED only for a status that denotes a completed refund.       *)
C34_RefundStatusDefaultsToPending ==
  [][\A p \in RouteRequests :
       (req[p].pc = "handler" /\ req[p].op = "refund" /\ req'[p].pc = "store") =>
         \A ppid \in ProviderIds, vendorStatus \in LifecycleVendorStatuses :
           TargetHandlerSucceeds(p, ppid, vendorStatus) =>
             LET provider == req[p].dbPayment[1].provider
                 written == findById(req[p].dbPayment[1].id)'[1].status
             IN /\ vendorStatus \notin VendorRefundStatuses(provider) =>
                     written = "PENDING"
                /\ written = "REFUNDED" =>
                     vendorStatus \in CompletedRefundStatuses(provider)]_vars

(* The deduplication token a vendor create request carries, by the           *)
(* mechanism of the provider: Stripe's request option, Razorpay's receipt,   *)
(* PayPal's PayPal-Request-Id header.                                        *)
DeduplicationToken(provider, sent) ==
  CASE provider = "stripe" -> sent.requestOption
    [] provider = "razorpay" -> sent.receipt
    [] provider = "paypal" -> sent.payPalRequestId

(* C35: every execution of createPayment's handler that calls the vendor     *)
(* sends a create request whose deduplication token, in the place the        *)
(* provider reads it from, is the client's idempotency key; so the vendor    *)
(* create requests made for one key carry the same token.                    *)
C35_KeyForwardedToVendor ==
  \A p \in Requests :
    /\ req[p].vendorRequest # Null <=> (req[p].op = "create" /\ req[p].called)
    /\ req[p].vendorRequest # Null =>
         /\ DeduplicationToken(Field(req[p].body, "provider"),
                               req[p].vendorRequest[1]) = Some(req[p].key)
         /\ \A q \in Requests :
              (req[q].vendorRequest # Null /\ req[q].key = req[p].key) =>
                req[q].vendorRequest = req[p].vendorRequest

(* Two executions for one key have each called PayPal's order creation, the  *)
(* second after the first one's lock went stale: both requests carried the   *)
(* key as PayPal-Request-Id.                                                 *)
C35_Witness ==
  /\ \A p \in {1, 2} :
       /\ req[p].called /\ req[p].key = "k1"
       /\ Field(req[p].body, "provider") = "paypal"
       /\ req[p].vendorRequest # Null
       /\ req[p].vendorRequest[1].payPalRequestId = Some("k1")
  /\ req[1].pc = "done" /\ req[1].outcome = Thrown("PROVIDER_ERROR")
  /\ req[2].existing

(* The outcome is one execute returns or throws without entering the unit    *)
(* of work: the replay of a stored response, the conflict, the locked error. *)
NoWorkOutcome(outcome) ==
  \/ outcome.kind = "ok" /\ outcome.cached
  \/ outcome.kind = "error" /\ outcome.code \in {"IDEMPOTENCY_KEY_MISMATCH",
                                                  "IDEMPOTENCY_KEY_LOCKED"}

(* C36: a call of execute that ends in a replay, a conflict or a locked      *)
(* error ends in its lookup step, and that step changes nothing: the         *)
(* idempotency records (lock timestamp, hash and response included), every   *)
(* Payment row and the webhook log are as they were; such a call has not     *)
(* entered the unit of work, and a call ends in one of these outcomes only   *)
(* in this way.                                                              *)
C36_ReplayConflictLockedChangeNothing ==
  [][\A p \in RouteRequests :
       /\ (req[p].pc = "find" /\ req'[p].pc = "done") =>
            /\ NoWorkOutcome(req'[p].outcome)
            /\ ~req'[p].ran /\ ~req'[p].called
            /\ idem' = idem
            /\ payments' = payments
            /\ webhookEvents' = webhookEvents
       /\ (req[p].pc # "done" /\ req'[p].pc = "done"
             /\ NoWorkOutcome(req'[p].outcome)) =>
            req[p].pc = "find"]_vars

(* A create with the key of a stored payment has been answered from the      *)
(* record while a webhook is in the log: the record, the payment and the     *)
(* log are as they were before the call.                                     *)
C36_Witness ==
  \E p \in RouteRequests :
    /\ Replayed(p) /\ ~req[p].ran
    /\ req[p].op = "create"
    /\ Len(webhookEvents) = 1
    /\ Len(payments) = 1
    /\ HasResponse(Row(req[p].key))
    /\ Row(req[p].key).lockedAt = Some(0)
    /\ req[p].outcome.body = <<"obj", 1, "pp_1", "REQUIRES_ACTION">>

(* The body of the request fails the schema of its route. *)
FailsSchema(r) ==
  IF r.op = "create" THEN ~createPaymentSchema(r.body)
  ELSE ~targetPaymentSchema(r.body)

(* C37: a create, confirm or refund request that carries a key and whose     *)
(* body fails the route's schema ends, in the step that receives it, with    *)
(* 422 VALIDATION_FAILED; that step computes no request hash, loads no       *)
(* payment and leaves the idempotency store and the Payment rows as they     *)
(* were, so the key's record is neither created nor locked; and no other     *)
(* step ends a request with VALIDATION_FAILED.                               *)
C37_ValidationBeforeEngine ==
  [][\A p \in RouteRequests :
       /\ (req[p].pc = "idle" /\ req'[p].pc # "idle") =>
            /\ FailsSchema(req'[p]) <=>
                 req'[p].outcome = Failure(422, "VALIDATION_FAILED")
            /\ FailsSchema(req'[p]) =>
                 /\ req'[p].pc = "done"
                 /\ errorHandler(req'[p].outcome, env.nodeEnv).status = 422
                 /\ ~req'[p].existing /\ ~req'[p].ran
                 /\ req'[p].dbPayment = Null
                 /\ req'[p].requestHash = IdleRequest.requestHash
                 /\ idem' = idem
                 /\ payments' = payments
       /\ (req[p].pc # "done" /\ req'[p].pc = "done"
             /\ req'[p].outcome.code = "VALIDATION_FAILED") =>
            req[p].pc = "idle"]_vars

(* A create without a provider was rejected with 422 under key k1; the       *)
(* corrected create with the same key then executed and was answered 201.    *)
C37_Witness ==
  /\ EndedWith(1, "VALIDATION_FAILED")
  /\ req[1].op = "create" /\ req[1].key = "k1" /\ req[1].body = BodyNoProvider
  /\ Executed(2) /\ req[2].op = "create" /\ req[2].key = "k1"
  /\ ~req[2].existing
  /\ req[2].outcome.statusCode = 201
  /\ HasResponse(Row("k1"))

(* C38: when the vendor call of a confirm returns, the stored payment's      *)
(* providerPaymentId becomes the id the adapter returned; when that of a     *)
(* refund returns, the providerPaymentId stays as it was; no other step      *)
(* changes a providerPaymentId; and the update step of a webhook changes     *)
(* only a payment whose provider and currently stored providerPaymentId are  *)
(* those of the event.                                                       *)
C38_WebhookMatchesCurrentId ==
  [][/\ \A p \in RouteRequests :
          (req[p].pc = "handler" /\ req'[p].pc = "store" /\ req[p].op # "create") =>
            \A ppid \in ProviderIds, vendorStatus \in LifecycleVendorStatuses :
              TargetHandlerSucceeds(p, ppid, vendorStatus) =>
                LET before == findById(req[p].dbPayment[1].id)[1]
                    after == findById(req[p].dbPayment[1].id)'[1]
                IN after.providerPaymentId =
                     IF req[p].op = "confirm" THEN ppid
                     ELSE before.providerPaymentId
     /\ \A i \in 1..Len(payments) :
          payments'[i].providerPaymentId # payments[i].providerPaymentId =>
            \E p \in RouteRequests :
              /\ req[p].pc = "handler" /\ req[p].op = "confirm"
              /\ req'[p].pc = "store"
     /\ (hook.pc = "update" /\ hook'.pc = "done") =>
          \A i \in 1..Len(payments) :
            i \notin MatchedPayments => payments'[i] = payments[i]]_vars

(* A stored Stripe payment was confirmed and the adapter returned pp_2; a    *)
(* verified webhook for the old id pp_1 then matched no payment, and the     *)
(* payment keeps the status of the confirmation under the id pp_2.           *)
C38_Witness ==
  /\ \E p \in RouteRequests :
       /\ Executed(p) /\ req[p].op = "confirm"
       /\ req[p].dbPayment[1].providerPaymentId = "pp_1"
  /\ Len(payments) = 1
  /\ payments[1].provider = "stripe"
  /\ payments[1].providerPaymentId = "pp_2"
  /\ payments[1].status = "SUCCEEDED"
  /\ hook.pc = "done" /\ hook.delivery.event.id = "evt_1"
  /\ hook.payload[1].providerPaymentId = "pp_1"
  /\ Len(webhookEvents) = 1
====
